---- MODULE Spec2Model ----
(***************************************************************************)
(* A model of the ReAct agent core of v2-backend:                          *)
(*   - ToolRegistry.execute (permission gate, bounded retry)               *)
(*   - ReActAgent.run (turn loop, parallel tool dispatch, loop detection,  *)
(*     HITL pause, provider failure, max_turns) over a session Storage    *)
(*   - ReActAgent.compact                                                  *)
(*                                                                         *)
(* Python strings are modelled as sequences of string tokens, so that      *)
(* formatting (f-strings, "\n".join) is computed and not assumed.          *)
(***************************************************************************)
EXTENDS Integers, Sequences, FiniteSets, TLC

(***************************************************************************)
(* Bounds of the model and constants of the program                        *)
(***************************************************************************)
\* max_turns handed to the engine (the loop budget of one run)
MaxTurns == 3
\* the largest number of function calls in one provider response
MaxCalls == 2
\* size of the sliding window of call signatures (loop_window)
LoopWindow == 3
\* the largest number of messages written to a session before compact()
MaxMsgs == 3

LoopThreshold == 3
WarnTurnsRemaining == 3
ParallelWorkers == 4
MaxAttempts == 3

None == <<"None">>

\* an optional id is a sequence of at most one id
NoId == <<>>

SomeId(id) == <<id>>

(***************************************************************************)
(* Strings                                                                 *)
(***************************************************************************)
RECURSIVE Join(_, _)
\* sep.join(parts): parts is a sequence of strings
Join(parts, sep) ==
    IF parts = <<>> THEN <<>>
    ELSE IF Len(parts) = 1 THEN parts[1]
    ELSE parts[1] \o sep \o Join(Tail(parts), sep)

RECURSIVE Flatten(_)
Flatten(ss) == IF ss = <<>> THEN <<>> ELSE ss[1] \o Flatten(Tail(ss))

NL == <<"\n">>

\* str.startswith("Error:")
StartsWithError(s) == Len(s) > 0 /\ s[1] = "Error: "

(***************************************************************************)
(* storage.py: the part constructors                                       *)
(***************************************************************************)
text_part(text) == [type |-> "text", data |-> [text |-> text]]

thinking_part(thinking) == [type |-> "thinking", data |-> [thinking |-> thinking]]

tool_call_part(name, args) ==
    [type |-> "tool_call", data |-> [name |-> name, args |-> args]]

tool_result_part(name, result, duration_ms) ==
    [type |-> "tool_result",
     data |-> [name |-> name, result |-> result, duration_ms |-> duration_ms]]

\* a finish part that gives the reason stop whatever the outcome
FinishAlwaysStop(reason) == [type |-> "finish", data |-> [reason |-> "stop"]]

finish_part(reason) == [type |-> "finish", data |-> [reason |-> reason]]

(***************************************************************************)
(* ToolRegistry                                                            *)
(***************************************************************************)
\* exception kinds a handler stub raises (all of them subclasses of Exception)
ExcKinds == {"ConnectionError", "TimeoutError", "OSError", "ValueError"}

\* ToolRegistry._TRANSIENT
TRANSIENT == {"ConnectionError", "TimeoutError", "OSError"}

\* a clause that names ConnectionError and TimeoutError only
CaughtOnlyConnectionAndTimeout(kind) == kind \in {"ConnectionError", "TimeoutError"}

\* `except self._TRANSIENT as e` catches the exception
CaughtAsTransient(kind) == kind \in TRANSIENT

\* no generic except clause
CaughtNever(kind) == FALSE

\* `except Exception as e` catches the exception
CaughtAsException(kind) == kind \in ExcKinds

\* what one invocation of a handler stub does: return a value, set the pause
\* flag and return a value, or raise
HandlerOutcomes == {"ok", "pause"} \cup ExcKinds

\* fnmatch.fnmatch(tool_name, pattern) on the names and patterns of the model
fnmatch(tool_name, pattern) ==
    CASE pattern = "*"     -> TRUE
      [] pattern = "calc"  -> tool_name = "calc"
      [] pattern = "re*"   -> tool_name \in {"review"}
      [] pattern = "f?tch" -> tool_name = "fetch"
      [] OTHER             -> FALSE

\* a rule dict without the "permission" key
NoKey == "<no key>"

\* the permission of the last rule from k on that matches the tool name
PermissionOfLastMatch(rules, k, tool_name) ==
    LET ms == {j \in k..Len(rules) : fnmatch(tool_name, rules[j].tool)}
        last == CHOOSE j \in ms : \A i \in ms : i <= j
    IN  IF ms = {} THEN "allow"
        ELSE IF rules[last].permission = NoKey THEN "allow"
        ELSE rules[last].permission

RECURSIVE check_permission_from(_, _, _)
check_permission_from(rules, k, tool_name) ==
    IF k > Len(rules) THEN "allow"
    ELSE IF fnmatch(tool_name, rules[k].tool)
         THEN (IF rules[k].permission = NoKey THEN "allow" ELSE rules[k].permission)
         ELSE check_permission_from(rules, k + 1, tool_name)

\* a permission check that consults no rule
PermissionIgnoringRules(reg, tool_name) == "allow"

\* ToolRegistry._check_permission
check_permission(reg, tool_name) == check_permission_from(reg.rules, 1, tool_name)

\* the value str(td.fn(**args)) of a handler stub that returns
HandlerValue(name, args) == <<"value of ", name, args>>

\* the reason a pausing handler stub writes to ctx.pause_reason
PauseReasonOf(name, args) == <<"review needed: ", name, args>>

ExcMessage == "boom"

ErrUnknown(name, names) ==
    <<"Error: ", "unknown tool '", name, "'. Available: ">> \o names

ErrDenied(name) == <<"Error: ", "tool '", name, "' denied by policy">>

ErrUserDenied(name) == <<"Error: ", "user denied tool '", name, "'">>

ErrException(kind) == <<"Error: ", kind, ": ", ExcMessage>>

\* the source's suffix is " (已重试 2 次)": "(retried 2 times)"
ErrRetried(kind) == <<"Error: ", kind, ": ", ExcMessage, " (retried 2 times)">>

RECURSIVE Attempts(_, _, _, _, _)
\* the retry loop of ToolRegistry.execute: `for attempt in range(3)`;
\* beh[k] is what the handler does at its k-th invocation, pauses collects the
\* pause reasons the invocations so far have written to the context
Attempts(name, args, beh, attempt, pauses) ==
    LET outcome == beh[attempt + 1]
        invoked == attempt + 1
    IN  CASE outcome = "ok" ->
               [result |-> HandlerValue(name, args), invoked |-> invoked,
                pauses |-> pauses, raised |-> FALSE]
          [] outcome = "pause" ->
               [result |-> HandlerValue(name, args), invoked |-> invoked,
                pauses |-> Append(pauses, PauseReasonOf(name, args)), raised |-> FALSE]
          [] outcome \notin {"ok", "pause"} /\ CaughtAsTransient(outcome) ->
               IF attempt < MaxAttempts - 1
               THEN Attempts(name, args, beh, attempt + 1, pauses)
               ELSE [result |-> ErrRetried(outcome), invoked |-> invoked,
                     pauses |-> pauses, raised |-> FALSE]
          [] outcome \notin {"ok", "pause"} /\ ~CaughtAsTransient(outcome)
                /\ CaughtAsException(outcome) ->
               [result |-> ErrException(outcome), invoked |-> invoked,
                pauses |-> pauses, raised |-> FALSE]
          [] OTHER ->
               \* no except clause matches: the exception leaves execute
               [result |-> None, invoked |-> invoked,
                pauses |-> pauses, raised |-> TRUE]

NotInvoked(result, asked) ==
    [result |-> result, invoked |-> 0, pauses |-> <<>>, raised |-> FALSE,
     asked |-> asked]

\* ToolRegistry.execute(name, args), with the approval callback's answer and
\* the handler's behaviour as inputs
execute(reg, name, args, answer, beh) ==
    IF \A k \in 1..Len(reg.tools) : reg.tools[k] # name
    THEN NotInvoked(ErrUnknown(name, reg.tools), FALSE)
    ELSE LET permission == check_permission(reg, name)
             asked == permission = "ask" /\ reg.callback
         IN  IF permission = "deny" THEN NotInvoked(ErrDenied(name), FALSE)
             ELSE IF asked /\ ~answer THEN NotInvoked(ErrUserDenied(name), TRUE)
             ELSE [asked |-> asked] @@ Attempts(name, args, beh, 0, <<>>)

(***************************************************************************)
(* Conversation storage.  A session's rows are kept in creation order; a   *)
(* row is canonical (msg_type "agent_parts", with parts) or a display row  *)
(* (with content).  The in-memory storages keep canonical rows only.       *)
(***************************************************************************)
StorageKinds == {"Storage", "ChatStorage", "MemoryStorage", "InquiryStorage"}

DbKinds == {"Storage", "ChatStorage"}

\* the id the database gives to the first row of the session: the rows of
\* other sessions hold the ids below it
FirstRowId == 11

\* the longest tool result (in tokens) a display row shows in full
DisplayLimit == 2000

\* the sequence taken from the number of canonical rows
SequenceAfterCanonical(rs) ==
    Len(SelectSeq(rs, LAMBDA r : r.msg_type = "agent_parts")) + 1

\* Storage._next_sequence / ChatStorage._next_sequence
next_sequence(rs) == IF rs = <<>> THEN 1 ELSE rs[Len(rs)].sequence + 1

\* the primary key of the next row: the table's autoincrement, or the
\* counter of the in-memory storages (_next_id, _seq), which starts at 1
next_row_id(kind, rs) ==
    IF rs = <<>> THEN (IF kind \in DbKinds THEN FirstRowId ELSE 1)
    ELSE rs[Len(rs)].id + 1

Row(kind, rs, role, msg_type, content, parts) ==
    [id |-> next_row_id(kind, rs), sequence |-> next_sequence(rs), role |-> role,
     msg_type |-> msg_type, content |-> content, parts |-> parts]

\* _write_display_message: one display row appended to the session
write_display_message(kind, rs, role, msg_type, content) ==
    Append(rs, Row(kind, rs, role, msg_type, content, <<>>))

\* Storage._map_role
map_role(kind, role) ==
    IF kind = "Storage" /\ role = "assistant" THEN "agent" ELSE role

\* Storage._unmap_role
unmap_role(kind, role) ==
    IF kind = "Storage" /\ role = "agent" THEN "assistant" ELSE role

\* args.get("thought", "") of a tool call's arguments
ThoughtOf(args) == IF args = "{thought:t}" THEN <<"t">> ELSE <<>>

Truncate(s, n) == IF Len(s) > n THEN SubSeq(s, 1, n) ELSE s

\* error_utils.parse_tool_error(...)["user_message"]
user_message_of(result_text) ==
    IF Len(result_text) >= 3 /\ result_text[3] = ": "
    THEN (CASE result_text[2] = "ConnectionError" -> <<"network connection failed">>
            [] result_text[2] = "TimeoutError"    -> <<"request timed out">>
            [] result_text[2] = "ValueError"      -> <<"bad data format">>
            [] OTHER -> <<"operation failed: ">> \o SubSeq(result_text, 4, Len(result_text)))
    ELSE <<"operation failed: ">> \o Tail(result_text)

\* the display rows Storage.create_message derives from one part
StorageDisplay(rs, role, part) ==
    CASE part.type = "thinking" ->
           write_display_message("Storage", rs, map_role("Storage", role), "thought",
                                 part.data.thinking)
      [] part.type = "text" ->
           IF part.data.text # <<>>
           THEN write_display_message("Storage", rs, map_role("Storage", role), "text",
                                      part.data.text)
           ELSE rs
      [] part.type = "tool_call" ->
           write_display_message("Storage", rs, "agent", "action",
                                 <<"call tool: ", part.data.name>>)
      [] part.type = "tool_result" ->
           write_display_message("Storage", rs, "tool", "observation",
                                 Truncate(part.data.result, DisplayLimit))
      [] OTHER -> rs

\* the display rows ChatStorage.create_message derives from one part
ChatDisplay(rs, role, part) ==
    CASE part.type = "text" ->
           IF part.data.text # <<>>
           THEN write_display_message("ChatStorage", rs, role,
                    IF role = "user" THEN "user_input" ELSE "text", part.data.text)
           ELSE rs
      [] part.type = "tool_call" ->
           IF part.data.name = "think"
           THEN (IF ThoughtOf(part.data.args) # <<>>
                 THEN write_display_message("ChatStorage", rs, "assistant", "thinking",
                                            ThoughtOf(part.data.args))
                 ELSE rs)
           ELSE write_display_message("ChatStorage", rs, "assistant", "action",
                                      <<"call tool: ", part.data.name>>)
      [] part.type = "tool_result" ->
           IF part.data.name = "think" THEN rs
           ELSE LET result_text ==
                      IF part.data.name # "query_db" /\ Len(part.data.result) > DisplayLimit
                      THEN SubSeq(part.data.result, 1, DisplayLimit) \o <<"...">>
                      ELSE part.data.result
                IN  IF StartsWithError(result_text)
                    THEN write_display_message("ChatStorage", rs, "tool",
                             "error_observation", user_message_of(result_text))
                    ELSE write_display_message("ChatStorage", rs, "tool", "observation",
                                               result_text)
      [] part.type = "thinking" ->
           IF part.data.thinking # <<>>
           THEN write_display_message("ChatStorage", rs, "assistant", "thinking",
                                      part.data.thinking)
           ELSE rs
      [] OTHER -> rs

RECURSIVE DisplayRows(_, _, _, _, _)
\* the loop `for part in parts` of create_message, from part k on
DisplayRows(kind, rs, role, parts, k) ==
    IF k > Len(parts) THEN rs
    ELSE DisplayRows(kind,
                     IF kind = "Storage" THEN StorageDisplay(rs, role, parts[k])
                     ELSE ChatDisplay(rs, role, parts[k]),
                     role, parts, k + 1)

\* the parts as the display rows show them: long tool results cut short
DisplayedParts(parts) ==
    [k \in 1..Len(parts) |->
        IF parts[k].type = "tool_result"
        THEN [parts[k] EXCEPT !.data.result = Truncate(@, DisplayLimit)]
        ELSE parts[k]]

\* a canonical row that stores the parts as displayed
CanonicalRowOfDisplayed(kind, rs, role, parts) ==
    Row(kind, rs, map_role(kind, role), "agent_parts", <<>>, DisplayedParts(parts))

\* the canonical row create_message writes first
CanonicalRow(kind, rs, role, parts) ==
    Row(kind, rs, map_role(kind, role), "agent_parts", <<>>, parts)

\* create_message(session_id, role, parts): the session's rows afterwards
create_message(kind, rs, role, parts) ==
    LET with_canonical == Append(rs, CanonicalRow(kind, rs, role, parts))
    IN  IF kind \in DbKinds THEN DisplayRows(kind, with_canonical, role, parts, 1)
        ELSE with_canonical

\* the sequence number of the created row, in place of its id
created_sequence(kind, rs) == next_sequence(rs)

\* the id of the Message that create_message(kind, rs, ...) returns
created_id(kind, rs) == next_row_id(kind, rs)

\* add_user_message(session_id, text)
add_user_message(kind, rs, text) ==
    IF kind = "Storage"
    THEN create_message(kind, write_display_message(kind, rs, "user", "user_input", text),
                        "user", <<text_part(text)>>)
    ELSE create_message(kind, rs, "user", <<text_part(text)>>)

\* add_assistant_message(session_id, parts_list, model)
\* the assistant message held back instead of written
AssistantMessageHeldBack(kind, rs, parts_list) == rs

add_assistant_message(kind, rs, parts_list) ==
    create_message(kind, rs, "assistant", parts_list)

RECURSIVE ThinkingDisplay(_, _, _)
\* step 2 of ChatStorage.stream_final_answer: the thinking display rows
ThinkingDisplay(rs, parts, k) ==
    IF k > Len(parts) THEN rs
    ELSE ThinkingDisplay(
             IF parts[k].type = "thinking" /\ parts[k].data.thinking # <<>>
             THEN write_display_message("ChatStorage", rs, "assistant", "thinking",
                                        parts[k].data.thinking)
             ELSE rs,
             parts, k + 1)

\* stream_final_answer(session_id, parts_list, final_text, model)
stream_final_answer(kind, rs, parts_list, final_text) ==
    IF kind = "ChatStorage"
    THEN LET with_canonical ==
                 Append(rs, Row(kind, rs, "assistant", "agent_parts", <<>>, parts_list))
             with_thinking == ThinkingDisplay(with_canonical, parts_list, 1)
         IN  Append(with_thinking,
                    Row(kind, with_thinking, "assistant", "text", final_text, <<>>))
    ELSE add_assistant_message(kind, rs, parts_list)

\* hasattr(self.storage, 'stream_final_answer')
HasStreamFinalAnswer(kind) == kind \in {"ChatStorage", "InquiryStorage"}

\* the engine's final write: the streaming path if the storage has one
write_final(kind, rs, parts_list, final_text) ==
    IF HasStreamFinalAnswer(kind) THEN stream_final_answer(kind, rs, parts_list, final_text)
    ELSE add_assistant_message(kind, rs, parts_list)

\* SelectSeq with a two-argument test
RECURSIVE FilterRows(_, _, _)
FilterRows(rs, kind, after_id) ==
    IF rs = <<>> THEN <<>>
    ELSE LET r == rs[1]
             keep == /\ r.msg_type = "agent_parts"
                     /\ \/ after_id = NoId
                        \/ IF kind = "InquiryStorage" THEN r.id > after_id[1]
                           ELSE r.id >= after_id[1]
         IN  (IF keep THEN <<[id |-> r.id, role |-> unmap_role(kind, r.role),
                              parts |-> r.parts]>>
              ELSE <<>>) \o FilterRows(Tail(rs), kind, after_id)

\* list_messages(session_id, after_id): the canonical messages, by sequence
list_messages(kind, rs, after_id) == FilterRows(rs, kind, after_id)

\* update_token_usage(session_id, prompt_tokens, completion_tokens)
update_token_usage(kind, sess, prompt_tokens, completion_tokens) ==
    IF kind \in {"ChatStorage", "InquiryStorage"} THEN sess
    ELSE [sess EXCEPT !.prompt_tokens = @ + prompt_tokens,
                      !.completion_tokens = @ + completion_tokens]

\* update_session(session_id, summary_message_id=...)
update_session(kind, sess, summary_message_id) ==
    [sess EXCEPT !.summary_message_id = summary_message_id]

(***************************************************************************)
(* The provider (GeminiProvider): native history items are Content         *)
(* records [role, parts]; a native part carries a text, a thought, a       *)
(* function call or a function response.                                   *)
(***************************************************************************)
NativePart(kind, text, name, args, response) ==
    [kind |-> kind, text |-> text, name |-> name, args |-> args, response |-> response]

TextPart(text) == NativePart("text", text, "", "", <<>>)

ThoughtPart(text) == NativePart("thought", text, "", "", <<>>)

FunctionCallPart(name, args) == NativePart("function_call", <<>>, name, args, <<>>)

FunctionResponsePart(name, result) == NativePart("function_response", <<>>, name, "", result)

Content(role, parts) == [role |-> role, parts |-> parts]

\* Python's None where a Content is expected
NoContent == [role |-> "None", parts |-> <<>>]

\* base.py: FunctionCall and FunctionResponse
FunctionCall(name, args) == [name |-> name, args |-> args, id |-> None]

FunctionResponse(name, result, id) == [name |-> name, result |-> result, id |-> id]

build_user_message(text) == Content("user", <<TextPart(text)>>)

build_system_injection(text) == Content("user", <<TextPart(text)>>)

\* build_tool_results(results): one user Content, one part per result
build_tool_results(results) ==
    Content("user", [k \in 1..Len(results) |->
                        FunctionResponsePart(results[k].name, results[k].result)])

\* build_model_message(text_parts, function_calls); None when there is no part
build_model_message(text_parts, function_calls) ==
    LET parts == [k \in 1..Len(text_parts) |-> TextPart(text_parts[k])]
                 \o [k \in 1..Len(function_calls) |->
                        FunctionCallPart(function_calls[k].name, function_calls[k].args)]
    IN  IF parts # <<>> THEN Content("model", parts) ELSE NoContent

build_empty_model_message == Content("model", <<TextPart(<<"(internal error, continue)">>)>>)

RECURSIVE SelectParts(_, _)
\* the parts of a native content that are of one of the given kinds, in order
SelectParts(parts, kinds) ==
    IF parts = <<>> THEN <<>>
    ELSE (IF parts[1].kind \in kinds THEN <<parts[1]>> ELSE <<>>)
         \o SelectParts(Tail(parts), kinds)

\* tokens the provider stub reports for every response (usage_metadata)
UsagePrompt == 2

UsageCompletion == 1

\* GeminiProvider._parse_response: content is None (NoContent) or a model Content
parse_response(content) ==
    LET parts == IF content = NoContent THEN <<>> ELSE content.parts
        texts == SelectParts(parts, {"text"})
        thoughts == SelectParts(parts, {"thought"})
        fcs == SelectParts(parts, {"function_call"})
    IN  [text_parts |-> [k \in 1..Len(texts) |-> texts[k].text],
         thinking_parts |-> [k \in 1..Len(thoughts) |-> thoughts[k].text],
         function_calls |-> [k \in 1..Len(fcs) |-> FunctionCall(fcs[k].name, fcs[k].args)],
         prompt_tokens |-> UsagePrompt,
         completion_tokens |-> UsageCompletion,
         raw |-> content]

(***************************************************************************)
(* History reconstruction                                                  *)
(***************************************************************************)
RECURSIVE PartsOfType(_, _)
PartsOfType(parts, type) ==
    IF parts = <<>> THEN <<>>
    ELSE (IF parts[1].type = type THEN <<parts[1]>> ELSE <<>>)
         \o PartsOfType(Tail(parts), type)

TextsOf(parts) ==
    LET ps == PartsOfType(parts, "text") IN [k \in 1..Len(ps) |-> ps[k].data.text]

CallsOf(parts) ==
    LET ps == PartsOfType(parts, "tool_call")
    IN  [k \in 1..Len(ps) |-> FunctionCall(ps[k].data.name, ps[k].data.args)]

ResponsesOf(parts) ==
    LET ps == PartsOfType(parts, "tool_result")
    IN  [k \in 1..Len(ps) |-> FunctionResponse(ps[k].data.name, ps[k].data.result, None)]

\* ReActAgent._message_to_provider
message_to_provider(msg) ==
    CASE msg.role = "user" ->
           IF ResponsesOf(msg.parts) # <<>> THEN build_tool_results(ResponsesOf(msg.parts))
           ELSE IF TextsOf(msg.parts) # <<>>
                THEN build_user_message(Join(TextsOf(msg.parts), NL))
                ELSE NoContent
      [] msg.role = "assistant" ->
           IF TextsOf(msg.parts) # <<>> \/ CallsOf(msg.parts) # <<>>
           THEN build_model_message(TextsOf(msg.parts), CallsOf(msg.parts))
           ELSE NoContent
      [] msg.role = "tool" ->
           IF ResponsesOf(msg.parts) # <<>> THEN build_tool_results(ResponsesOf(msg.parts))
           ELSE NoContent
      [] OTHER -> NoContent

RECURSIVE HistoryOf(_)
HistoryOf(msgs) ==
    IF msgs = <<>> THEN <<>>
    ELSE LET c == message_to_provider(msgs[1])
         IN  (IF c # NoContent THEN <<c>> ELSE <<>>) \o HistoryOf(Tail(msgs))

\* ReActAgent._load_history
load_history(kind, rs, sess) ==
    HistoryOf(list_messages(kind, rs, sess.summary_message_id))

(***************************************************************************)
(* State                                                                   *)
(***************************************************************************)
VARIABLES
    registry,       \* ToolRegistry: [tools, rules, callback]
    ex_out,         \* the last direct call of ToolRegistry.execute and its outcome
    storage_kind,   \* the Storage implementation the engine runs with
    rows,           \* the rows of the session, in creation order
    session,        \* [summary_message_id, prompt_tokens, completion_tokens]
    ctx,            \* ToolContext: [should_pause, pause_reason, todo_items]
    pc,             \* where run() stands: idle, llm, tools, check, done, raised
    turn,           \* the loop variable of run()
    history,        \* the in-memory history list
    prompt,         \* the history handed to the last provider.generate call
    resp,           \* the LLMResponse of the current turn
    wstate,         \* per requested call: queued, done (future completed), collected
    wout,           \* per requested call: what _execute_single returned
    fn_responses,   \* the list of FunctionResponse of the turn, by call index
    tool_storage_parts,  \* the list of tool_result parts of the turn, by call index
    arrival_order,  \* the call indexes in the order their results were taken up
    recent_calls,   \* self._recent_calls, the deque of call signatures
    loop_detected,  \* the flag of the current turn
    total_prompt_tokens,
    total_completion_tokens,
    result,         \* what run() returned
    provider_calls, \* number of provider.generate calls of the run
    provider_errors, \* number of provider.generate calls of the run that raised
    executes,       \* number of ToolRegistry.execute calls of the run
    pause_reads,    \* number of times the run has read ctx.should_pause
    compact_out,    \* the calls of compact() so far and what the last one returned
    status,         \* AgentSession.status of the session: active or processing
    stale,          \* whether session.updated_at is older than the processing timeout
    requests,       \* per incoming message: [via, at, seen, seen_stale, launched_on, pushed]
    created,        \* the direct create_message calls so far and the arguments of the last
    gen,            \* a call of provider.generate: where it stands and what it returned
    queue           \* the session's entry in stream_queue._queues and the events put

regVars == <<registry, ex_out>>

storeVars == <<storage_kind, rows, session>>

turnVars == <<resp, wstate, wout, fn_responses, tool_storage_parts, arrival_order>>

loopVars == <<recent_calls, loop_detected>>

tokenVars == <<total_prompt_tokens, total_completion_tokens>>

countVars == <<provider_calls, provider_errors, executes, pause_reads>>

runVars == <<ctx, pc, turn, history, prompt, turnVars, loopVars, tokenVars, result, countVars>>

hostVars == <<status, stale, requests, gen, queue>>

vars == <<regVars, storeVars, runVars, compact_out, hostVars, created>>

(***************************************************************************)
(* Inputs of a run                                                         *)
(***************************************************************************)
HITL_PAUSE_MARKER == "__HITL_PAUSE__"

UserMessages == {<<"what is 2+2">>}

\* the function calls a response of the provider stub may request
EngineCalls == {FunctionCallPart("think", "{thought:t}"),
                FunctionCallPart("calc", "{x:1}"),
                FunctionCallPart("calc", "{x:2}"),
                FunctionCallPart("review", "{}")}

RECURSIVE SeqsUpTo(_, _)
\* the sequences over S of length at most n
SeqsUpTo(S, n) ==
    IF n = 0 THEN {<<>>}
    ELSE LET shorter == SeqsUpTo(S, n - 1)
         IN  shorter \cup {Append(q, x) : q \in shorter, x \in S}

\* a thought and two text parts
Preamble == <<ThoughtPart(<<"h">>), TextPart(<<"a">>), TextPart(<<"b">>)>>

\* the candidate contents the vendor may answer with: none at all, a thought
\* alone, up to MaxCalls function calls, or a thought and two texts with at
\* most one call
VendorContents ==
    {NoContent, Content("model", <<ThoughtPart(<<"h">>)>>)}
    \cup {Content("model", cs) : cs \in SeqsUpTo(EngineCalls, MaxCalls)}
    \cup {Content("model", Preamble \o cs) : cs \in SeqsUpTo(EngineCalls, 1)}

\* what the handler stub of a tool does at its invocations: calc returns a
\* value for x = 1 and raises ValueError for any other argument, review asks
\* for a pause
StubBehaviours(name, args) ==
    CASE name = "calc" /\ args = "{x:1}" -> {[k \in 1..MaxAttempts |-> "ok"]}
      [] name = "calc" /\ args # "{x:1}" -> {[k \in 1..MaxAttempts |-> "ValueError"]}
      [] name = "review" -> {[k \in 1..MaxAttempts |-> "pause"]}
      [] OTHER           -> {[k \in 1..MaxAttempts |-> "ok"]}

\* the registry the engine is constructed with
EngineRegistry == [tools |-> <<"think", "calc", "review">>, rules |-> <<>>,
                   callback |-> FALSE]

NoResponse == [text_parts |-> <<>>, thinking_parts |-> <<>>, function_calls |-> <<>>,
               prompt_tokens |-> 0, completion_tokens |-> 0, raw |-> NoContent]

NoExec == [called |-> FALSE]

(***************************************************************************)
(* ReActAgent.run                                                          *)
(***************************************************************************)
BudgetWarning(remaining) ==
    build_system_injection(<<"[System] remaining ", ToString(remaining), "/",
                             ToString(MaxTurns), " turns, give the final answer">>)

LoopWarning ==
    build_system_injection(<<"[System] repeated identical tool call detected">>)

\* ToolContext.todo_state_summary
todo_state_summary(c) ==
    IF c.todo_items = <<>> THEN <<>>
    ELSE <<"[Todo state]">> \o Flatten(c.todo_items)

\* history after the budget warning of the turn (lines 303-308)
WithBudgetWarning(h, t) ==
    IF MaxTurns - t = WarnTurnsRemaining
    THEN Append(h, BudgetWarning(MaxTurns - t))
    ELSE h

\* whether the todo state is injected on this turn (line 313)
InjectsTodo(c, t) == todo_state_summary(c) # <<>> /\ t > 0

\* the history handed to provider.generate on this turn (lines 303-319)
PromptOf(h, c, t) ==
    IF InjectsTodo(c, t)
    THEN Append(WithBudgetWarning(h, t), build_system_injection(todo_state_summary(c)))
    ELSE WithBudgetWarning(h, t)

RECURSIVE RemoveFirst(_, _)
\* list.remove(item)
RemoveFirst(q, item) ==
    IF q = <<>> THEN <<>>
    ELSE IF q[1] = item THEN Tail(q)
    ELSE <<q[1]>> \o RemoveFirst(Tail(q), item)

\* history after the finally clause of the provider call (lines 334-336)
AfterGenerate(h, c, t) ==
    IF InjectsTodo(c, t)
    THEN RemoveFirst(PromptOf(h, c, t), build_system_injection(todo_state_summary(c)))
    ELSE PromptOf(h, c, t)

\* the storage parts without the requested calls
AssistantPartsOfTexts(r) ==
    [k \in 1..Len(r.thinking_parts) |-> thinking_part(r.thinking_parts[k])]
    \o [k \in 1..Len(r.text_parts) |-> text_part(r.text_parts[k])]

\* the storage parts of the assistant message (lines 353-359)
AssistantParts(r) ==
    [k \in 1..Len(r.thinking_parts) |-> thinking_part(r.thinking_parts[k])]
    \o [k \in 1..Len(r.text_parts) |-> text_part(r.text_parts[k])]
    \o [k \in 1..Len(r.function_calls) |->
           tool_call_part(r.function_calls[k].name, r.function_calls[k].args)]

\* lines 362-363
WithRaw(h, r) == IF r.raw # NoContent THEN Append(h, r.raw) ELSE h

\* the emptiness test without the raw payload
IsEmptyWithoutRaw(r) ==
    r.text_parts = <<>> /\ r.function_calls = <<>>

\* line 343
IsEmptyResponse(r) ==
    r.raw = NoContent /\ r.text_parts = <<>> /\ r.function_calls = <<>>

NoReply == <<"(Agent produced no reply)">>

\* the first text part alone
FirstTextOf(r) == IF r.text_parts # <<>> THEN r.text_parts[1] ELSE NoReply

\* the thinking taken as the answer when there is no text
FinalTextOrThinking(r) ==
    IF r.text_parts # <<>> THEN Join(r.text_parts, NL)
    ELSE IF r.thinking_parts # <<>> THEN Join(r.thinking_parts, NL)
    ELSE NoReply

\* line 367
FinalText(r) == IF r.text_parts # <<>> THEN Join(r.text_parts, NL) ELSE NoReply

\* ReActAgent._call_signature: the name and the digest of the canonical JSON
\* of the arguments
call_signature(name, args) == <<name, args>>

\* deque.append with maxlen
DequeAppend(q, x, maxlen) ==
    IF maxlen = 0 THEN <<>>
    ELSE IF Len(q) >= maxlen THEN Append(Tail(q), x)
    ELSE Append(q, x)

CountOf(q, x) == Cardinality({k \in 1..Len(q) : q[k] = x})

\* the test made as if the current call were already in the window
LoopHitCountingCurrent(count) == count + 1 >= LoopThreshold

\* the test of line 403 on the number of earlier occurrences in the window
LoopHit(count) == count >= LoopThreshold

RECURSIVE LoopScan(_, _, _, _)
\* the loop-detection pass over the calls of a turn (lines 397-405), from
\* call k on
LoopScan(calls, k, recent, detected) ==
    IF k > Len(calls) THEN [recent |-> recent, detected |-> detected]
    ELSE IF calls[k].name = "think" THEN LoopScan(calls, k + 1, recent, detected)
    ELSE LET sig == call_signature(calls[k].name, calls[k].args)
         IN  LoopScan(calls, k + 1, DequeAppend(recent, sig, LoopWindow),
                      detected \/ LoopHit(CountOf(recent, sig)))

\* the session after the token update that ends a run (lines 381-384)
WithTokens(sess, p, c) ==
    IF p # 0 \/ c # 0 THEN update_token_usage(storage_kind, sess, p, c) ELSE sess

NoneResponse == [name |-> "None", result |-> None, id |-> None]

NonePart == [type |-> "None", data |-> [name |-> "None"]]

Min(a, b) == IF a < b THEN a ELSE b

\* run(user_message) up to the loop: lines 280-299
Run(user_message) ==
    /\ pc = "idle"
    /\ LET rows1 == add_user_message(storage_kind, rows, user_message)
       IN  /\ rows' = rows1
           /\ history' = load_history(storage_kind, rows1, session)
    /\ total_prompt_tokens' = 0
    /\ total_completion_tokens' = 0
    /\ turn' = 0
    /\ pc' = "llm"
    /\ UNCHANGED <<regVars, storage_kind, session, ctx, prompt, turnVars, loopVars,
                   result, countVars, compact_out, hostVars, created>>

\* str(e) of the exception the provider stub raises
ProviderDown == "provider down"

\* line 324
ProviderErrorMessage(t) ==
    <<"LLM API call failed (turn ", ToString(t + 1), "): ", ProviderDown>>

\* the error text without a finish part
ErrorPartsWithoutFinish(msg) == <<text_part(msg)>>

\* line 325
ErrorParts(msg) == <<text_part(msg), finish_part("error")>>

\* a loop that runs one turn more
LoopContinuesOneMore(t) == t <= MaxTurns

\* `for turn in range(self.max_turns)` (line 301): whether the loop body runs
\* for the turn
LoopContinues(t) == t < MaxTurns

\* provider.generate raises: lines 302-336
ProviderRaises ==
    /\ pc = "llm"
    /\ LoopContinues(turn)
    /\ prompt' = PromptOf(history, ctx, turn)
    /\ provider_calls' = provider_calls + 1
    /\ provider_errors' = provider_errors + 1
    /\ LET msg == ProviderErrorMessage(turn)
       IN  /\ rows' = write_final(storage_kind, rows, ErrorParts(msg), msg)
           /\ result' = msg
    /\ history' = AfterGenerate(history, ctx, turn)
    /\ pc' = "done"
    /\ UNCHANGED <<regVars, storage_kind, session, ctx, turn, turnVars, loopVars,
                   tokenVars, executes, pause_reads, compact_out, hostVars, created>>

\* the provider answers with nothing at all: lines 302-346
EmptyResponse ==
    /\ pc = "llm"
    /\ LoopContinues(turn)
    /\ \E content \in VendorContents :
         LET r == parse_response(content)
         IN  /\ IsEmptyResponse(r)
             /\ resp' = r
             /\ total_prompt_tokens' = total_prompt_tokens + r.prompt_tokens
             /\ total_completion_tokens' = total_completion_tokens + r.completion_tokens
    /\ prompt' = PromptOf(history, ctx, turn)
    /\ provider_calls' = provider_calls + 1
    /\ history' = Append(AfterGenerate(history, ctx, turn), build_empty_model_message)
    /\ turn' = turn + 1
    /\ UNCHANGED <<regVars, storeVars, ctx, pc, wstate, wout, fn_responses,
                   tool_storage_parts, arrival_order, loopVars, result, provider_errors,
                   executes, pause_reads, compact_out, hostVars, created>>

\* the provider answers without a tool call: lines 302-385
FinalAnswer ==
    /\ pc = "llm"
    /\ LoopContinues(turn)
    /\ \E content \in VendorContents :
         LET r == parse_response(content)
             p == total_prompt_tokens + r.prompt_tokens
             c == total_completion_tokens + r.completion_tokens
         IN  /\ ~IsEmptyResponse(r)
             /\ r.function_calls = <<>>
             /\ resp' = r
             /\ total_prompt_tokens' = p
             /\ total_completion_tokens' = c
             /\ history' = WithRaw(AfterGenerate(history, ctx, turn), r)
             /\ rows' = write_final(storage_kind, rows,
                                    Append(AssistantParts(r), finish_part("stop")),
                                    FinalText(r))
             /\ session' = WithTokens(session, p, c)
             /\ result' = FinalText(r)
    /\ prompt' = PromptOf(history, ctx, turn)
    /\ provider_calls' = provider_calls + 1
    /\ pc' = "done"
    /\ UNCHANGED <<regVars, storage_kind, ctx, turn, wstate, wout, fn_responses,
                   tool_storage_parts, arrival_order, loopVars, provider_errors, executes,
                   pause_reads, compact_out, hostVars, created>>

\* the provider requests tool calls: lines 302-409, up to the dispatch
ToolCallTurn ==
    /\ pc = "llm"
    /\ LoopContinues(turn)
    /\ \E content \in VendorContents :
         LET r == parse_response(content)
             n == Len(r.function_calls)
             scan == LoopScan(r.function_calls, 1, recent_calls, FALSE)
         IN  /\ ~IsEmptyResponse(r)
             /\ r.function_calls # <<>>
             /\ resp' = r
             /\ total_prompt_tokens' = total_prompt_tokens + r.prompt_tokens
             /\ total_completion_tokens' = total_completion_tokens + r.completion_tokens
             /\ history' = WithRaw(AfterGenerate(history, ctx, turn), r)
             /\ rows' = add_assistant_message(storage_kind, rows, AssistantParts(r))
             /\ recent_calls' = scan.recent
             /\ loop_detected' = scan.detected
             /\ wstate' = [k \in 1..n |-> "queued"]
             /\ wout' = [k \in 1..n |-> NoneResponse]
             /\ fn_responses' = [k \in 1..n |-> NoneResponse]
             /\ tool_storage_parts' = [k \in 1..n |-> NonePart]
             /\ arrival_order' = <<>>
    /\ prompt' = PromptOf(history, ctx, turn)
    /\ provider_calls' = provider_calls + 1
    /\ pc' = "tools"
    /\ UNCHANGED <<regVars, storage_kind, session, ctx, turn, result, provider_errors,
                   executes, pause_reads, compact_out, hostVars, created>>

ThoughtRecorded == <<"[Thought recorded]">>

\* no call taken for a thought
NeverThink(tool_name) == FALSE

\* the test `tool_name == "think"` of _execute_single and of the logging
\* around it (lines 414, 424, 435, 450)
IsThink(tool_name) == tool_name = "think"

\* self._log(step_type, ..., tool_name=...): the step appended to step_log
Step(step_type, tool_name) == [type |-> step_type, tool_name |-> tool_name]

\* the reflection step carries the thought and no tool name
Reflection == Step("reflection", "None")

RECURSIVE ResultSteps(_, _)
\* the tool_result steps logged as the futures complete (lines 447-451)
ResultSteps(calls, arrival) ==
    IF arrival = <<>> THEN <<>>
    ELSE (IF ~IsThink(calls[arrival[1]].name)
          THEN <<Step("tool_result", calls[arrival[1]].name)>> ELSE <<>>)
         \o ResultSteps(calls, Tail(arrival))

RECURSIVE CallSteps(_)
\* the steps logged before the calls are submitted (lines 434-439)
CallSteps(calls) ==
    IF calls = <<>> THEN <<>>
    ELSE (IF IsThink(calls[1].name) THEN <<Reflection>>
          ELSE <<Step("tool_call", calls[1].name)>>)
         \o CallSteps(Tail(calls))

\* the steps logged by the tool phase of a turn once the results listed in
\* arrival are taken up: lines 422-453
ToolSteps(calls, arrival) ==
    IF Len(calls) = 1
    THEN IF arrival = <<>> THEN <<>>
         ELSE IF IsThink(calls[1].name) THEN <<Reflection>>
         ELSE <<Step("tool_call", calls[1].name), Step("tool_result", calls[1].name)>>
    ELSE CallSteps(calls) \o ResultSteps(calls, arrival)

\* round((time.time() - t0) * 1000) of a dispatched call; 0 for think
DurationOf(name) == IF name = "think" THEN 0 ELSE 7

NumCalls == Len(resp.function_calls)

Started == {k \in 1..Len(wstate) : wstate[k] # "queued"}

\* the context with the pause flag cleared before a call
AfterPausesFromCleared(c, pauses) ==
    IF pauses = <<>> THEN [c EXCEPT !.should_pause = FALSE, !.pause_reason = <<>>]
    ELSE [c EXCEPT !.should_pause = TRUE, !.pause_reason = pauses[Len(pauses)]]

\* the context after a call whose handler invocations wrote the given reasons
AfterPauses(c, pauses) ==
    IF pauses = <<>> THEN c
    ELSE [c EXCEPT !.should_pause = TRUE, !.pause_reason = pauses[Len(pauses)]]

\* _execute_single(idx, fc) of call i runs to its return: lines 411-420.
\* With two or more calls it runs on a pool of min(n, parallel workers)
\* threads that take the calls in submission order.
WorkerRun(i) ==
    /\ pc = "tools"
    /\ i \in 1..NumCalls
    /\ wstate[i] = "queued"
    /\ i <= Cardinality(Started) + Min(NumCalls, ParallelWorkers)
    /\ LET fc == resp.function_calls[i]
       IN  IF IsThink(fc.name)
           THEN /\ wout' = [wout EXCEPT ![i] =
                              [name |-> fc.name, result |-> ThoughtRecorded,
                               dur |-> 0, id |-> fc.id, raised |-> FALSE]]
                /\ UNCHANGED <<ctx, executes>>
           ELSE \E beh \in StubBehaviours(fc.name, fc.args) :
                \E answer \in (IF registry.callback THEN BOOLEAN ELSE {TRUE}) :
                  LET out == execute(registry, fc.name, fc.args, answer, beh)
                  IN  /\ wout' = [wout EXCEPT ![i] =
                                    [name |-> fc.name, result |-> out.result,
                                     dur |-> DurationOf(fc.name), id |-> fc.id,
                                     raised |-> out.raised]]
                      /\ ctx' = AfterPauses(ctx, out.pauses)
                      /\ executes' = executes + 1
    /\ wstate' = [wstate EXCEPT ![i] = "done"]
    /\ UNCHANGED <<regVars, storeVars, pc, turn, history, prompt, resp, fn_responses,
                   tool_storage_parts, arrival_order, loopVars, tokenVars, result, provider_calls,
                   provider_errors, pause_reads, compact_out, hostVars, created>>

\* results stored in the order they come in
SlotByArrival(idx, arrival) == arrival

\* the slot of the result lists that receives the result of call idx, the
\* arrival-th result the engine takes up (lines 431-432 and 452-453)
ResultSlot(idx, arrival) == idx

\* the engine takes up the result of call i: inline (lines 423-432), or as
\* as_completed yields its future (lines 447-453)
Collect(i) ==
    /\ pc = "tools"
    /\ i \in 1..NumCalls
    /\ wstate[i] = "done"
    /\ IF wout[i].raised
       THEN /\ pc' = "raised"
            /\ UNCHANGED <<fn_responses, tool_storage_parts, wstate, arrival_order>>
       ELSE LET arrival == Len(arrival_order) + 1
                slot == ResultSlot(i, arrival)
            IN  /\ fn_responses' = [fn_responses EXCEPT ![slot] =
                        FunctionResponse(wout[i].name, wout[i].result, wout[i].id)]
                /\ tool_storage_parts' = [tool_storage_parts EXCEPT ![slot] =
                        tool_result_part(wout[i].name, wout[i].result, wout[i].dur)]
                /\ wstate' = [wstate EXCEPT ![i] = "collected"]
                /\ arrival_order' = Append(arrival_order, i)
                /\ pc' = pc
    /\ UNCHANGED <<regVars, storeVars, ctx, turn, history, prompt, resp, wout, loopVars,
                   tokenVars, result, countVars, compact_out, hostVars, created>>

\* all results are in: the tool message is persisted and the results are
\* appended to the history (lines 455-459)
PersistToolResults ==
    /\ pc = "tools"
    /\ \A k \in 1..NumCalls : wstate[k] = "collected"
    /\ rows' = create_message(storage_kind, rows, "tool", tool_storage_parts)
    /\ history' = Append(history, build_tool_results(fn_responses))
    /\ pc' = "check"
    /\ UNCHANGED <<regVars, storage_kind, session, ctx, turn, prompt, turnVars, loopVars,
                   tokenVars, result, countVars, compact_out, hostVars, created>>

\* a turn end that does not look at the pause flag
ContinuesRegardless(c) == TRUE

\* whether the turn goes on to the next one after the test
\* `if self.ctx.should_pause` (line 462)
ContinuesAfterTools(c) == ~c.should_pause

PauseMessage(c) == <<"[awaiting user review] ">> \o c.pause_reason

\* the pause check and the end of the turn: lines 461-480
PauseCheck ==
    /\ pc = "check"
    /\ pause_reads' = pause_reads + 1
    /\ IF ~ContinuesAfterTools(ctx)
       THEN /\ rows' = add_assistant_message(storage_kind, rows,
                          <<text_part(PauseMessage(ctx)), finish_part("hitl_pause")>>)
            /\ session' = WithTokens(session, total_prompt_tokens,
                                     total_completion_tokens)
            /\ result' = <<HITL_PAUSE_MARKER>> \o ctx.pause_reason
            /\ pc' = "done"
            /\ UNCHANGED <<turn, history>>
       ELSE /\ history' = IF loop_detected THEN Append(history, LoopWarning)
                          ELSE history
            /\ turn' = turn + 1
            /\ pc' = "llm"
            /\ UNCHANGED <<rows, session, result>>
    /\ UNCHANGED <<regVars, storage_kind, ctx, prompt, turnVars, loopVars, tokenVars,
                   provider_calls, provider_errors, executes, compact_out, hostVars, created>>

MaxTurnsMessage ==
    <<"Agent reached max turns (", ToString(MaxTurns), ") without a final answer.">>

\* the loop ran out: lines 482-494
MaxTurnsReached ==
    /\ pc = "llm"
    /\ ~LoopContinues(turn)
    /\ rows' = add_assistant_message(storage_kind, rows,
                  <<text_part(MaxTurnsMessage), finish_part("max_turns")>>)
    /\ session' = WithTokens(session, total_prompt_tokens, total_completion_tokens)
    /\ result' = MaxTurnsMessage
    /\ pc' = "done"
    /\ UNCHANGED <<regVars, storage_kind, ctx, turn, history, prompt, turnVars, loopVars,
                   tokenVars, countVars, compact_out, hostVars, created>>

(***************************************************************************)
(* The specification of one run of the engine                              *)
(***************************************************************************)
\* no call of compact() yet
NoCompact == [calls |-> 0, ok |-> FALSE, ret |-> <<>>]

NewSession == [summary_message_id |-> NoId, prompt_tokens |-> 0, completion_tokens |-> 0]

NewContext == [should_pause |-> FALSE, pause_reason |-> <<>>, todo_items |-> <<>>]

\* the storages the engine is run with
EngineStorages == StorageKinds

\* the messages that come in for the session
MaxRequests == 3

Requests == 1..MaxRequests

\* a message that has not come in yet
NoRequest == [via |-> "none", at |-> "new", seen |-> "none", seen_stale |-> FALSE,
              launched_on |-> "none", pushed |-> <<>>]

\* a session created with status active and no message under way
\* no direct create_message call yet
NoCreate == [n |-> 0, role |-> "none", parts |-> <<>>]

\* no call of provider.generate under way
NoGenerate == [at |-> "idle"]

\* no entry for the session in _queues
NoQueue == [exists |-> FALSE, events |-> <<>>]

InitHost ==
    /\ created = NoCreate
    /\ queue = NoQueue
    /\ gen = NoGenerate
    /\ status = "active"
    /\ stale = FALSE
    /\ requests = [r \in Requests |-> NoRequest]

\* the contexts the engine is constructed with: a new one, one that
\* already holds a todo item, or one left paused by an earlier run
EngineContexts ==
    {NewContext,
     [NewContext EXCEPT !.todo_items = <<<<"  [ ] #1 order">>>>],
     [NewContext EXCEPT !.should_pause = TRUE, !.pause_reason = <<"earlier review">>]}

InitRunWith(c) ==
    /\ InitHost
    /\ ctx = c
    /\ pc = "idle"
    /\ turn = 0
    /\ history = <<>>
    /\ prompt = <<>>
    /\ resp = NoResponse
    /\ wstate = <<>>
    /\ wout = <<>>
    /\ fn_responses = <<>>
    /\ tool_storage_parts = <<>>
    /\ arrival_order = <<>>
    /\ recent_calls = <<>>
    /\ loop_detected = FALSE
    /\ total_prompt_tokens = 0
    /\ total_completion_tokens = 0
    /\ result = None
    /\ provider_calls = 0
    /\ provider_errors = 0
    /\ executes = 0
    /\ pause_reads = 0

InitRun == InitRunWith(NewContext)

Init ==
    /\ registry = EngineRegistry
    /\ ex_out = NoExec
    /\ storage_kind \in EngineStorages
    /\ rows = <<>>
    /\ session = NewSession
    /\ compact_out = NoCompact
    /\ \E c \in EngineContexts : InitRunWith(c)

Next ==
    \/ \E m \in UserMessages : Run(m)
    \/ ProviderRaises
    \/ EmptyResponse
    \/ FinalAnswer
    \/ ToolCallTurn
    \/ \E i \in 1..MaxCalls : WorkerRun(i)
    \/ \E i \in 1..MaxCalls : Collect(i)
    \/ PersistToolResults
    \/ PauseCheck
    \/ MaxTurnsReached

Spec == Init /\ [][Next]_vars

(***************************************************************************)
(* The specification of the ToolRegistry on its own: tools are registered  *)
(* and removed, permissions set, and execute is called with any name, any  *)
(* answer of the approval callback and any behaviour of the handler.       *)
(* ex_out records the last execute call made on the present configuration. *)
(***************************************************************************)
RegisterableTools == {"calc", "review"}

ExecuteNames == RegisterableTools \cup {"nosuch"}

Rule(tool, permission) == [tool |-> tool, permission |-> permission]

\* the rule lists handed to set_permissions
PermissionLists ==
    {<<>>,
     <<Rule("calc", "deny")>>,
     <<Rule("re*", "ask"), Rule("*", "deny")>>,
     <<Rule("*", "ask")>>,
     <<Rule("f?tch", "deny"), Rule("calc", NoKey)>>,
     <<Rule("calc", "allow"), Rule("*", "deny")>>}

\* what a handler does at its invocations; an invocation that follows one
\* that ended the call is never made and is written "ok".  The transient
\* failures of one call are of one kind, or of the three kinds in turn.
Behaviours ==
    {b \in [1..MaxAttempts -> HandlerOutcomes] :
        /\ \A k \in 2..MaxAttempts : b[k - 1] \notin TRANSIENT => b[k] = "ok"
        /\ \/ \A j, k \in 1..MaxAttempts :
                 (b[j] \in TRANSIENT /\ b[k] \in TRANSIENT) => b[j] = b[k]
           \/ b = <<"ConnectionError", "TimeoutError", "OSError">>}

\* the answers the approval callback may give to a call: it is asked only
\* when the rule says "ask" and a callback is set
Answers(reg, name) ==
    IF check_permission(reg, name) = "ask" /\ reg.callback THEN BOOLEAN ELSE {TRUE}

EmptyRegistry == [tools |-> <<>>, rules |-> <<>>, callback |-> FALSE]

\* dict assignment: a new key goes last, a present key keeps its place
register(reg, name) ==
    IF \E k \in 1..Len(reg.tools) : reg.tools[k] = name THEN reg
    ELSE [reg EXCEPT !.tools = Append(@, name)]

RECURSIVE Without(_, _)
Without(q, x) ==
    IF q = <<>> THEN <<>>
    ELSE (IF q[1] = x THEN <<>> ELSE <<q[1]>>) \o Without(Tail(q), x)

\* dict.pop(name, None)
remove(reg, name) == [reg EXCEPT !.tools = Without(@, name)]

set_permissions(reg, rules) == [reg EXCEPT !.rules = rules]

set_permission_callback(reg) == [reg EXCEPT !.callback = TRUE]

Register(name) ==
    /\ registry' = register(registry, name)
    /\ ex_out' = NoExec
    /\ UNCHANGED <<storeVars, runVars, compact_out, hostVars, created>>

Remove(name) ==
    /\ registry' = remove(registry, name)
    /\ ex_out' = NoExec
    /\ UNCHANGED <<storeVars, runVars, compact_out, hostVars, created>>

SetPermissions(rules) ==
    /\ registry' = set_permissions(registry, rules)
    /\ ex_out' = NoExec
    /\ UNCHANGED <<storeVars, runVars, compact_out, hostVars, created>>

SetPermissionCallback ==
    /\ registry' = set_permission_callback(registry)
    /\ ex_out' = NoExec
    /\ UNCHANGED <<storeVars, runVars, compact_out, hostVars, created>>

ExecArgs == "{x:1}"

\* one call of execute(name, args)
ExecuteCall(name, answer, beh) ==
    /\ ex_out' = [called |-> TRUE, name |-> name, args |-> ExecArgs, answer |-> answer,
                  beh |-> beh, out |-> execute(registry, name, ExecArgs, answer, beh)]
    /\ UNCHANGED <<registry, storeVars, runVars, compact_out, hostVars, created>>

InitExec ==
    /\ registry = EmptyRegistry
    /\ ex_out = NoExec
    /\ storage_kind = "MemoryStorage"
    /\ rows = <<>>
    /\ session = NewSession
    /\ compact_out = NoCompact
    /\ InitRun

NextExec ==
    \/ \E name \in RegisterableTools : Register(name)
    \/ \E name \in RegisterableTools : Remove(name)
    \/ \E rules \in PermissionLists : SetPermissions(rules)
    \/ SetPermissionCallback
    \/ \E name \in ExecuteNames, beh \in Behaviours :
         \E answer \in Answers(registry, name) : ExecuteCall(name, answer, beh)

SpecExec == InitExec /\ [][NextExec]_vars

(***************************************************************************)
(* ReActAgent.compact, on a session written through the storage API        *)
(***************************************************************************)
\* the largest number of compact() calls on one session
MaxCompacts == 2

\* the longest tool result the summary prompt quotes in full
ResultPreviewLimit == 200

\* the longest conversation text the summary prompt carries
PromptLimit == 10000

role_label(role) ==
    CASE role = "user"      -> "user"
      [] role = "assistant" -> "assistant"
      [] role = "tool"      -> "tool"
      [] OTHER              -> role

\* the lines one part adds to conversation_text (lines 509-522)
PartLines(role, part) ==
    CASE part.type = "text" -> <<<<role_label(role), ": ">> \o part.data.text>>
      [] part.type = "tool_call" ->
           <<<<"assistant calls tool: ", part.data.name, "(", part.data.args, ")">>>>
      [] part.type = "tool_result" ->
           <<<<"tool result[", part.data.name, "]: ">>
             \o (IF Len(part.data.result) > ResultPreviewLimit
                 THEN SubSeq(part.data.result, 1, ResultPreviewLimit) \o <<"...">>
                 ELSE part.data.result)>>
      [] OTHER -> <<>>

RECURSIVE MessageLines(_, _, _)
MessageLines(role, parts, k) ==
    IF k > Len(parts) THEN <<>>
    ELSE PartLines(role, parts[k]) \o MessageLines(role, parts, k + 1)

RECURSIVE conversation_text(_)
\* lines 506-522
conversation_text(messages) ==
    IF messages = <<>> THEN <<>>
    ELSE MessageLines(messages[1].role, messages[1].parts, 1)
         \o conversation_text(Tail(messages))

\* lines 524-536
summary_prompt(messages) ==
    LET full_text == Join(conversation_text(messages), NL)
    IN  <<"summarise the conversation:\n\n">>
        \o (IF Len(full_text) > PromptLimit
            THEN SubSeq(full_text, 1, PromptLimit) \o <<"\n... (truncated)">>
            ELSE full_text)

NothingToCompact == <<"the session has no messages, nothing to compact">>

SummaryFailed == <<"(summary failed)">>

\* line 541
summary_text_of(r) == IF r.text_parts # <<>> THEN Join(r.text_parts, NL) ELSE SummaryFailed

SummaryPrefix == <<"[conversation summary] summary of the conversation so far:\n\n">>

CompactDone == <<"context compacted, summary saved.\n\nsummary:\n">>

\* what the provider answers to the summary prompt
CompactContents ==
    {NoContent, Content("model", <<TextPart(<<"s1">>)>>),
     Content("model", <<TextPart(<<"s1">>), TextPart(<<"s2">>)>>)}

CanonicalCount == Len(list_messages(storage_kind, rows, NoId))

AddUserMessage(text) ==
    /\ CanonicalCount < MaxMsgs
    /\ rows' = add_user_message(storage_kind, rows, text)
    /\ created' = [n |-> created.n + 1, role |-> "user", parts |-> <<text_part(text)>>]
    /\ UNCHANGED <<regVars, storage_kind, session, runVars, compact_out, hostVars>>

AddAssistantMessage(parts) ==
    /\ CanonicalCount < MaxMsgs
    /\ rows' = add_assistant_message(storage_kind, rows, parts)
    /\ created' = [n |-> created.n + 1, role |-> "assistant", parts |-> parts]
    /\ UNCHANGED <<regVars, storage_kind, session, runVars, compact_out, hostVars>>

AddToolMessage(parts) ==
    /\ CanonicalCount < MaxMsgs
    /\ rows' = create_message(storage_kind, rows, "tool", parts)
    /\ created' = [n |-> created.n + 1, role |-> "tool", parts |-> parts]
    /\ UNCHANGED <<regVars, storage_kind, session, runVars, compact_out, hostVars>>

\* compact() on a session without messages: lines 502-504
CompactNothing ==
    /\ compact_out.calls < MaxCompacts
    /\ list_messages(storage_kind, rows, NoId) = <<>>
    /\ compact_out' = [calls |-> compact_out.calls + 1, ok |-> FALSE,
                       ret |-> NothingToCompact]
    /\ UNCHANGED <<regVars, storeVars, runVars, hostVars, created>>

\* compact() when provider.generate raises: lines 502-543
CompactProviderRaises ==
    /\ compact_out.calls < MaxCompacts
    /\ list_messages(storage_kind, rows, NoId) # <<>>
    /\ prompt' = <<build_user_message(
                      summary_prompt(list_messages(storage_kind, rows, NoId)))>>
    /\ compact_out' = [calls |-> compact_out.calls + 1, ok |-> FALSE,
                       ret |-> <<"summary failed: ", "provider down">>]
    /\ UNCHANGED <<regVars, storeVars, ctx, pc, turn, history, turnVars, loopVars,
                   tokenVars, result, countVars, hostVars, created>>

\* compact() when the provider answers: lines 502-553
Compact ==
    /\ compact_out.calls < MaxCompacts
    /\ list_messages(storage_kind, rows, NoId) # <<>>
    /\ prompt' = <<build_user_message(
                      summary_prompt(list_messages(storage_kind, rows, NoId)))>>
    /\ \E content \in CompactContents :
         LET summary_text == summary_text_of(parse_response(content))
         IN  /\ rows' = create_message(storage_kind, rows, "user",
                                       <<text_part(SummaryPrefix \o summary_text)>>)
             /\ created' = [n |-> created.n + 1, role |-> "user",
                            parts |-> <<text_part(SummaryPrefix \o summary_text)>>]
             /\ session' = update_session(storage_kind, session,
                                          SomeId(created_id(storage_kind, rows)))
             /\ compact_out' = [calls |-> compact_out.calls + 1, ok |-> TRUE,
                                ret |-> CompactDone \o summary_text]
    /\ UNCHANGED <<regVars, storage_kind, ctx, pc, turn, history, turnVars, loopVars,
                   tokenVars, result, countVars, hostVars>>

\* the parts and the text of a final answer
FinalAnswerParts == <<thinking_part(<<"h">>), text_part(<<"a">>), finish_part("stop")>>

\* ChatStorage.stream_final_answer called on the session
StreamFinalAnswer ==
    /\ storage_kind = "ChatStorage"
    /\ CanonicalCount < MaxMsgs
    /\ rows' = stream_final_answer(storage_kind, rows, FinalAnswerParts, <<"a">>)
    /\ UNCHANGED <<regVars, storage_kind, session, runVars, compact_out, hostVars, created>>

\* the agent crashes of one session that the chat route reports
MaxCrashes == 1

CrashText == <<"sorry, processing your message failed: ", "crash">>

\* the error row of _run_chat_agent: sequence = msg_count + 1 (lines 563-576)
ErrorRow(rs) ==
    [id |-> next_row_id("ChatStorage", rs), sequence |-> Len(rs) + 1, role |-> "assistant",
     msg_type |-> "error", content |-> CrashText, parts |-> <<>>]

\* routes/chat.py _run_chat_agent: agent.run raised, the except clause
\* writes the error row (lines 560-587)
ChatAgentCrashes ==
    /\ storage_kind = "ChatStorage"
    /\ Len(SelectSeq(rows, LAMBDA r : r.msg_type = "error")) < MaxCrashes
    /\ rows' = Append(rows, ErrorRow(rows))
    /\ UNCHANGED <<regVars, storage_kind, session, runVars, compact_out, hostVars, created>>

\* the messages written to a session before it is compacted
StoredAssistantParts ==
    {<<text_part(<<"a">>), finish_part("stop")>>, <<tool_call_part("calc", "{x:1}")>>}

\* a tool result longer than the display rows show
LongResult == [k \in 1..(DisplayLimit + 1) |-> "x"]

\* the tool results written to a session: a value, an error string of the
\* registry, a long result
StoredToolParts ==
    {<<tool_result_part("calc", HandlerValue("calc", "{x:1}"), 7)>>,
     <<tool_result_part("calc", ErrException("ValueError"), 7)>>,
     <<tool_result_part("calc", LongResult, 7)>>}

InitCompact ==
    /\ registry = EngineRegistry
    /\ ex_out = NoExec
    /\ storage_kind \in StorageKinds
    /\ rows = <<>>
    /\ session = NewSession
    /\ compact_out = NoCompact
    /\ InitRun

NextCompact ==
    \/ \E text \in UserMessages : AddUserMessage(text)
    \/ \E parts \in StoredAssistantParts : AddAssistantMessage(parts)
    \/ \E parts \in StoredToolParts : AddToolMessage(parts)
    \/ CompactNothing
    \/ CompactProviderRaises
    \/ Compact
    \/ StreamFinalAnswer
    \/ ChatAgentCrashes

SpecCompact == InitCompact /\ [][NextCompact]_vars

(***************************************************************************)
(* The callers of run(): the chat route and the LINE handler, on one       *)
(* session.  Each incoming message is handled by its own thread with its   *)
(* own database session.                                                   *)
(***************************************************************************)
Running == {r \in Requests : requests[r].at = "running"}

\* an event of the session's stream, with the run that pushes it
Event(type, r) == [type |-> type, by |-> r]

\* stream_queue.get_or_create_queue
get_or_create_queue(q) == IF q.exists THEN q ELSE [exists |-> TRUE, events |-> <<>>]

\* stream_queue.push_event: a no-op if the session has no queue
push_event(q, event) ==
    IF q.exists THEN [q EXCEPT !.events = Append(@, event)] ELSE q

\* routes/chat.py send_message: the session is marked processing and the
\* agent thread is started (lines 417-443)
SendMessage(r) ==
    /\ requests[r].at = "new"
    /\ status' = "processing"
    /\ stale' = FALSE
    /\ requests' = [requests EXCEPT ![r] =
                       [via |-> "chat", at |-> "running", seen |-> "none",
                        seen_stale |-> FALSE, launched_on |-> status, pushed |-> <<>>]]
    /\ queue' = get_or_create_queue(queue)
    /\ UNCHANGED <<regVars, storeVars, runVars, compact_out, created, gen>>

\* routes/chat.py _run_chat_agent: agent.run returned or raised, the finally
\* clause marks the session active and pushes the done event (lines 556-609)
RunChatAgentEnds(r) ==
    /\ requests[r].via = "chat"
    /\ requests[r].at = "running"
    /\ status' = "active"
    /\ stale' = FALSE
    /\ requests' = [requests EXCEPT ![r].at = "finished",
                                    ![r].pushed = Append(@, "done")]
    /\ queue' = push_event(queue, Event("done", r))
    /\ UNCHANGED <<regVars, storeVars, runVars, compact_out, created, gen>>

\* line_bot.py _process_message: the handler loads the session (line 326)
ProcessMessageReads(r) ==
    /\ requests[r].at = "new"
    /\ requests' = [requests EXCEPT ![r] =
                       [via |-> "line", at |-> "read", seen |-> status,
                        seen_stale |-> stale, launched_on |-> "none", pushed |-> <<>>]]
    /\ UNCHANGED <<regVars, storeVars, runVars, compact_out, status, stale, created, gen, queue>>

\* the test of line 329 on the loaded session
Rejects(req) == req.seen = "processing" /\ ~req.seen_stale

\* line_bot.py _process_message: the concurrency guard on the loaded session,
\* then the session is marked processing and the agent is run (lines 328-359)
ProcessMessageGuard(r) ==
    /\ requests[r].at = "read"
    /\ IF Rejects(requests[r])
       THEN /\ requests' = [requests EXCEPT ![r].at = "rejected"]
            /\ UNCHANGED <<status, stale>>
       ELSE /\ status' = "processing"
            /\ stale' = FALSE
            /\ requests' = [requests EXCEPT ![r].at = "running",
                                            ![r].launched_on = status]
    /\ UNCHANGED <<regVars, storeVars, runVars, compact_out, created, gen, queue>>

\* line_bot.py _process_message: the agent returned or raised, the finally
\* clause marks the session active (lines 363-369)
RunAgentForLineEnds(r) ==
    /\ requests[r].via = "line"
    /\ requests[r].at = "running"
    /\ status' = "active"
    /\ stale' = FALSE
    /\ requests' = [requests EXCEPT ![r].at = "finished"]
    /\ UNCHANGED <<regVars, storeVars, runVars, compact_out, created, gen, queue>>

\* more than PROCESSING_TIMEOUT_MINUTES go by since updated_at was written
TimePasses ==
    /\ ~stale
    /\ stale' = TRUE
    /\ UNCHANGED <<regVars, storeVars, runVars, compact_out, status, requests, created, gen, queue>>

InitServe ==
    /\ registry = EngineRegistry
    /\ ex_out = NoExec
    /\ storage_kind = "ChatStorage"
    /\ rows = <<>>
    /\ session = NewSession
    /\ compact_out = NoCompact
    /\ InitRun

NextServe ==
    \/ \E r \in Requests : SendMessage(r)
    \/ \E r \in Requests : RunChatAgentEnds(r)
    \/ \E r \in Requests : ProcessMessageReads(r)
    \/ \E r \in Requests : ProcessMessageGuard(r)
    \/ \E r \in Requests : RunAgentForLineEnds(r)
    \/ TimePasses

SpecServe == InitServe /\ [][NextServe]_vars

(***************************************************************************)
(* provider.generate of the three providers: the retry loop around the     *)
(* vendor call and the parsing of its answer                               *)
(***************************************************************************)
Providers == {"Gemini", "OpenAI", "DeepSeek"}

\* the largest LLMConfig.max_retries the providers are configured with
MaxRetries == 2

\* a ChatCompletion without choices, on which _parse_response raises
NoChoices == [content |-> <<>>, reasoning_content |-> <<>>, tool_calls |-> <<>>,
              choices |-> 0]

\* choices[0].message of a ChatCompletion
Message(content, reasoning_content, tool_calls) ==
    [content |-> content, reasoning_content |-> reasoning_content,
     tool_calls |-> tool_calls, choices |-> 1]

\* what the vendor call of a provider answers when it does not raise
VendorAnswers(provider) ==
    IF provider = "Gemini"
    THEN {NoContent, Content("model", <<TextPart(<<"s1">>)>>),
          Content("model", <<ThoughtPart(<<"r">>), FunctionCallPart("calc", "{x:1}")>>)}
    ELSE {NoChoices, Message(<<"s1">>, <<>>, <<>>),
          Message(<<>>, <<"r">>,
                  <<[id |-> "call_1", name |-> "calc", args |-> "{x:1}"]>>)}

\* OpenAIProvider._parse_response
openai_parse_response(m) ==
    [text_parts |-> IF m.content # <<>> THEN <<m.content>> ELSE <<>>,
     thinking_parts |-> <<>>,
     function_calls |-> [k \in 1..Len(m.tool_calls) |->
                            FunctionCall(m.tool_calls[k].name, m.tool_calls[k].args)],
     prompt_tokens |-> UsagePrompt,
     completion_tokens |-> UsageCompletion,
     raw |-> NoContent]

\* DeepSeekProvider._parse_response, with _build_raw_assistant
deepseek_parse_response(m) ==
    [text_parts |-> IF m.content # <<>> THEN <<m.content>> ELSE <<>>,
     thinking_parts |-> IF m.reasoning_content # <<>> THEN <<m.reasoning_content>>
                        ELSE <<>>,
     function_calls |-> [k \in 1..Len(m.tool_calls) |->
                            [name |-> m.tool_calls[k].name, args |-> m.tool_calls[k].args,
                             id |-> m.tool_calls[k].id]],
     prompt_tokens |-> UsagePrompt,
     completion_tokens |-> UsageCompletion,
     raw |-> [role |-> "assistant", reasoning_content |-> m.reasoning_content,
              content |-> m.content, tool_calls |-> m.tool_calls]]

\* whether _parse_response raises on the answer (resp.choices[0])
ParseRaises(provider, answer) ==
    IF provider = "Gemini" THEN FALSE ELSE answer.choices = 0

\* self._parse_response(resp) of the provider
ParsedBy(provider, answer) ==
    CASE provider = "Gemini"   -> parse_response(answer)
      [] provider = "OpenAI"   -> openai_parse_response(answer)
      [] provider = "DeepSeek" -> deepseek_parse_response(answer)

\* the state of a call of generate that has made no attempt yet
NewCall(provider, max_retries) ==
    [at |-> "loop", provider |-> provider, max_retries |-> max_retries, attempt |-> 0,
     calls |-> <<>>, answer |-> NoContent, value |-> NoResponse, has_value |-> FALSE,
     error |-> <<>>]

\* generate(history) is called: Gemini raises at once when it was not
\* configured, otherwise the loop starts with attempt 0
GenerateCalled(provider, max_retries, configured) ==
    /\ gen.at = "idle"
    /\ gen' = IF provider = "Gemini" /\ ~configured
              THEN [NewCall(provider, max_retries) EXCEPT
                      !.at = "raised", !.error = <<"RuntimeError", "0">>]
              ELSE NewCall(provider, max_retries)
    /\ UNCHANGED <<regVars, storeVars, runVars, compact_out, status, stale, requests,
                   created, queue>>

\* a retry test that is one off
RetriesLeftInclusive(attempt, max_retries) == attempt <= max_retries

\* `if attempt < self._config.max_retries`: sleep and try again
RetriesLeft(attempt, max_retries) == attempt < max_retries

\* the call after the attempt failed with an exception of the kind
AfterFailure(g, kind) ==
    [g EXCEPT !.calls = Append(@, kind),
              !.error = <<kind, ToString(g.attempt)>>,
              !.attempt = @ + 1,
              !.at = IF RetriesLeft(g.attempt, g.max_retries) THEN "loop" ELSE "raised"]

\* one pass of `for attempt in range(max_retries + 1)`: the vendor call
\* raises, or it answers and the answer is parsed; when the range is used
\* up the function returns without a value
Attempt ==
    /\ gen.at = "loop"
    /\ IF gen.attempt < gen.max_retries + 1
       THEN \/ \E answer \in VendorAnswers(gen.provider) :
                 IF ParseRaises(gen.provider, answer)
                 THEN gen' = AfterFailure(gen, "IndexError")
                 ELSE gen' = [gen EXCEPT
                        !.calls = Append(@, "ok"),
                        !.answer = answer,
                        !.value = ParsedBy(gen.provider, answer),
                        !.has_value = TRUE,
                        !.at = "returned"]
            \/ gen' = AfterFailure(gen, "ApiError")
       ELSE gen' = [gen EXCEPT !.at = "returned"]
    /\ UNCHANGED <<regVars, storeVars, runVars, compact_out, status, stale, requests,
                   created, queue>>

\* the caller has the result; the provider is ready for the next call
GenerateDone ==
    /\ gen.at \in {"returned", "raised"}
    /\ gen' = NoGenerate
    /\ UNCHANGED <<regVars, storeVars, runVars, compact_out, status, stale, requests,
                   created, queue>>

InitGenerate ==
    /\ registry = EngineRegistry
    /\ ex_out = NoExec
    /\ storage_kind = "MemoryStorage"
    /\ rows = <<>>
    /\ session = NewSession
    /\ compact_out = NoCompact
    /\ InitRun

NextGenerate ==
    \/ \E provider \in Providers, max_retries \in 0..MaxRetries, configured \in BOOLEAN :
         GenerateCalled(provider, max_retries, configured)
    \/ Attempt
    \/ GenerateDone

SpecGenerate == InitGenerate /\ [][NextGenerate]_vars

(***************************************************************************)
(* Properties of ToolRegistry.execute, checked under SpecExec              *)
(***************************************************************************)
Registered(name) == \E k \in 1..Len(registry.tools) : registry.tools[k] = name

\* the rules whose pattern matches the name
MatchingRules(name) ==
    {k \in 1..Len(registry.rules) : fnmatch(name, registry.rules[k].tool)}

\* the permission of the first rule that matches the name
FirstMatch(name) ==
    LET k == CHOOSE k \in MatchingRules(name) : \A j \in MatchingRules(name) : k <= j
    IN  registry.rules[k].permission

AlwaysTransient(beh) ==
    \A k \in 1..3 : beh[k] \in {"ConnectionError", "TimeoutError", "OSError"}

\* C3: a handler that raises a transient kind at every invocation is invoked
\* exactly 3 times and the returned error string names the failure and the
\* 2 retries; a handler that raises a non-transient kind is invoked exactly
\* once and its error string is returned.
C3_RetryThreeTimes ==
    (ex_out.called /\ ex_out.out.invoked > 0) =>
        /\ AlwaysTransient(ex_out.beh) =>
              /\ ex_out.out.invoked = 3
              /\ ex_out.out.result =
                    <<"Error: ", ex_out.beh[3], ": ", ExcMessage, " (retried 2 times)">>
        /\ ex_out.beh[1] = "ValueError" =>
              /\ ex_out.out.invoked = 1
              /\ ex_out.out.result = <<"Error: ", "ValueError", ": ", ExcMessage>>

C3_Witness ==
    /\ ex_out.called
    /\ ex_out.beh = <<"OSError", "OSError", "OSError">>
    /\ ex_out.out.invoked = 3
    /\ StartsWithError(ex_out.out.result)

\* C4: every call of execute returns a string and raises nothing: an unknown
\* name, a permission denial and a handler exception each give a string that
\* starts with "Error: ", and the unknown-name string lists the registered
\* names.
C4_ExecuteReturnsString ==
    ex_out.called =>
        /\ ~ex_out.out.raised
        /\ ex_out.out.result # None
        /\ ~Registered(ex_out.name) =>
              ex_out.out.result =
                 <<"Error: ", "unknown tool '", ex_out.name, "'. Available: ">>
                 \o registry.tools
        /\ (Registered(ex_out.name) /\ ex_out.out.invoked = 0) =>
              StartsWithError(ex_out.out.result)
        /\ (ex_out.out.invoked > 0 /\ ex_out.beh[ex_out.out.invoked] \in ExcKinds) =>
              StartsWithError(ex_out.out.result)

C4_Witness ==
    /\ ex_out.called
    /\ Registered(ex_out.name)
    /\ ex_out.beh[1] = "ValueError"
    /\ ex_out.out.invoked = 1
    /\ StartsWithError(ex_out.out.result)

\* C5: the permission is decided before the handler runs: when the first
\* matching rule says deny, or says ask and the approval callback answers no,
\* the handler is not invoked and an error string is returned; a registered
\* tool that no rule matches is executed.
C5_PermissionBeforeHandler ==
    (ex_out.called /\ Registered(ex_out.name)) =>
        /\ (MatchingRules(ex_out.name) # {} /\ FirstMatch(ex_out.name) = "deny") =>
              /\ ex_out.out.invoked = 0
              /\ StartsWithError(ex_out.out.result)
        /\ (MatchingRules(ex_out.name) # {} /\ FirstMatch(ex_out.name) = "ask"
              /\ registry.callback /\ ~ex_out.answer) =>
              /\ ex_out.out.invoked = 0
              /\ StartsWithError(ex_out.out.result)
        /\ MatchingRules(ex_out.name) = {} =>
              /\ ex_out.out.invoked >= 1
              /\ ex_out.beh[1] = "ok" =>
                    ex_out.out.result = <<"value of ", ex_out.name, ex_out.args>>

C5_Witness ==
    /\ ex_out.called
    /\ Registered(ex_out.name)
    /\ MatchingRules(ex_out.name) # {}
    /\ FirstMatch(ex_out.name) = "ask"
    /\ registry.callback
    /\ ~ex_out.answer
    /\ ex_out.out.invoked = 0

(***************************************************************************)
(* Properties of ReActAgent.compact, checked under SpecCompact             *)
(***************************************************************************)
AllMessages == list_messages(storage_kind, rows, NoId)

\* the rows from position n + 1 on
RowsAfter(rs, n) == SubSeq(rs, n + 1, Len(rs))

CanonicalRowsOf(rs) == SelectSeq(rs, LAMBDA r : r.msg_type = "agent_parts")

\* what a call of compact() that takes the session from rows to rows' must do
CompactStepOk ==
    IF CanonicalRowsOf(rows) = <<>>
    THEN /\ compact_out'.ret = <<"the session has no messages, nothing to compact">>
         /\ rows' = rows
         /\ session' = session
    ELSE compact_out'.ok =>
           /\ Len(rows') > Len(rows)
           /\ SubSeq(rows', 1, Len(rows)) = rows
           /\ Len(CanonicalRowsOf(RowsAfter(rows', Len(rows)))) = 1
           /\ LET new == CanonicalRowsOf(RowsAfter(rows', Len(rows)))[1]
              IN  /\ new.role = "user"
                  /\ Len(new.parts) = 1
                  /\ new.parts[1].type = "text"
                  /\ new.parts[1].data.text[1] = SummaryPrefix[1]
                  /\ session'.summary_message_id = <<new.id>>
           /\ session'.prompt_tokens = session.prompt_tokens
           /\ session'.completion_tokens = session.completion_tokens

\* C10: compact() on a session without messages returns the fixed message
\* and changes neither the rows nor summary_message_id; on a session with
\* messages, when the provider answers, it appends exactly one canonical
\* user message that holds the summary, leaves every earlier row as it was,
\* and sets summary_message_id to the id of the new message.
C10_CompactAppendsOneSummary ==
    [][compact_out'.calls = compact_out.calls + 1 => CompactStepOk]_vars

C10_Witness ==
    /\ compact_out.calls = 1
    /\ compact_out.ok
    /\ storage_kind = "ChatStorage"
    /\ Len(AllMessages) = 3
    /\ AllMessages[3].role = "user"
    /\ session.summary_message_id = <<AllMessages[3].id>>

(***************************************************************************)
(* Properties of ReActAgent.run, checked under Spec                        *)
(***************************************************************************)
LastOf(q) == q[Len(q)]

\* the index of the last message of the role
LastWithRole(msgs, role) ==
    CHOOSE k \in 1..Len(msgs) :
        /\ msgs[k].role = role
        /\ \A j \in (k + 1)..Len(msgs) : msgs[j].role # role

IsToolResults(item) ==
    item.parts # <<>> /\ \A k \in 1..Len(item.parts) : item.parts[k].kind = "function_response"

\* the last item of the history that carries tool results
LastToolResults ==
    history[CHOOSE k \in 1..Len(history) :
                /\ IsToolResults(history[k])
                /\ \A j \in (k + 1)..Len(history) : ~IsToolResults(history[j])]

AllCollected == \A k \in 1..NumCalls : wstate[k] = "collected"

\* the tool message of the turn has been persisted and is the last tool
\* message of the session
ToolMessagePersisted == pc \in {"check", "llm", "done"} /\ NumCalls >= 1 /\ AllCollected

\* C1: when a turn requests N >= 2 calls, the persisted tool message has N
\* tool_result parts and part i holds the result of requested call i, in
\* whatever order the results came in; the tool-results item of the history
\* is in the same order.
C1_ResultsInRequestOrder ==
    (ToolMessagePersisted /\ NumCalls >= 2) =>
        LET msg == AllMessages[LastWithRole(AllMessages, "tool")]
            item == LastToolResults
        IN  /\ Len(msg.parts) = NumCalls
            /\ Len(item.parts) = NumCalls
            /\ \A i \in 1..NumCalls :
                 /\ msg.parts[i].type = "tool_result"
                 /\ msg.parts[i].data.name = resp.function_calls[i].name
                 /\ msg.parts[i].data.result = wout[i].result
                 /\ item.parts[i].name = resp.function_calls[i].name
                 /\ item.parts[i].response = wout[i].result

C1_Witness ==
    /\ pc = "check"
    /\ NumCalls = 2
    /\ arrival_order = <<2, 1>>
    /\ wout[1].result # wout[2].result
    /\ Len(AllMessages[LastWithRole(AllMessages, "tool")].parts) = 2

ToolMessageCount == Len(SelectSeq(AllMessages, LAMBDA m : m.role = "tool"))

\* the run has returned on the pause path
PausedState ==
    /\ pc = "done"
    /\ result = <<"__HITL_PAUSE__">> \o ctx.pause_reason
    /\ Len(AllMessages) >= 2
    /\ LastOf(AllMessages).role = "assistant"
    /\ LastOf(LastOf(AllMessages).parts) = finish_part("hitl_pause")
    /\ AllMessages[Len(AllMessages) - 1].role = "tool"
    /\ Len(AllMessages[Len(AllMessages) - 1].parts) = NumCalls

\* the flag is set and a tool turn of this run is behind its check: a
\* context handed over with the flag set has no such turn before its first
\* tool message
PauseTaken == ctx.should_pause /\ pc \notin {"tools", "check"} /\ ToolMessageCount > 0

\* C2: the pause flag is read once per tool turn, after every call of the
\* turn has returned and the tool message is persisted; when a handler has
\* set it, the run persists an assistant message ending in
\* finish(hitl_pause), returns the pause marker followed by the reason, and
\* calls neither the provider nor a tool again.
C2_PauseCheckedOnceAfterTools ==
    /\ [](/\ pause_reads = ToolMessageCount - (IF pc = "check" THEN 1 ELSE 0)
          /\ pc = "check" => AllCollected
          /\ PauseTaken => PausedState)
    /\ [][PauseTaken => (provider_calls' = provider_calls /\ executes' = executes)]_vars

C2_Witness ==
    /\ ctx.should_pause
    /\ pc = "done"
    /\ NumCalls = 2
    /\ resp.function_calls[1].name = "review"
    /\ resp.function_calls[2].name = "calc"
    /\ wstate[2] = "collected"
    /\ pause_reads = 1

RECURSIVE RequestedIn(_)
\* the signatures of the non-think calls the messages request, in order
RequestedIn(msgs) ==
    IF msgs = <<>> THEN <<>>
    ELSE LET calls == SelectSeq(PartsOfType(msgs[1].parts, "tool_call"),
                                LAMBDA c : c.data.name # "think")
         IN  [k \in 1..Len(calls) |-> <<calls[k].data.name, calls[k].data.args>>]
             \o RequestedIn(Tail(msgs))

Requested == RequestedIn(AllMessages)

\* the number of non-think calls of the current turn
TurnRequests ==
    Len(SelectSeq(resp.function_calls, LAMBDA fc : fc.name # "think"))

\* how often the j-th requested call occurs among the LoopWindow requests
\* before it
EarlierInWindow(j) ==
    LET lo == IF j - LoopWindow < 1 THEN 1 ELSE j - LoopWindow
    IN  Cardinality({i \in lo..(j - 1) : Requested[i] = Requested[j]})

\* a call of the current turn was requested with LoopThreshold occurrences
\* already in the window
RepeatedBeyondThreshold ==
    \E j \in (Len(Requested) - TurnRequests + 1)..Len(Requested) :
        EarlierInWindow(j) >= LoopThreshold

\* a call of the current turn is, itself included, the LoopThreshold-th
\* occurrence in the window
RepeatedUpToThreshold ==
    \E j \in (Len(Requested) - TurnRequests + 1)..Len(Requested) :
        EarlierInWindow(j) + 1 >= LoopThreshold

\* a tool turn has just ended without a pause
TurnEnded == pc = "llm" /\ NumCalls >= 1

HasLoopWarning(h) == \E k \in 1..Len(h) : h[k] = LoopWarning

FinishedWith(reason) ==
    SelectSeq(AllMessages,
              LAMBDA m : \E k \in 1..Len(m.parts) : m.parts[k] = finish_part(reason))

\* C7: when provider.generate raises, run() does not raise: it persists one
\* assistant message [text(error message), finish(error)], returns the error
\* message, and calls neither the provider nor a tool again.
C7_ProviderFailureEndsRun ==
    /\ [](provider_errors > 0 =>
            /\ pc = "done"
            /\ provider_errors = 1
            /\ result = <<"LLM API call failed (turn ", ToString(provider_calls), "): ",
                          ProviderDown>>
            /\ LastOf(AllMessages).role = "assistant"
            /\ LastOf(AllMessages).parts = <<text_part(result), finish_part("error")>>
            /\ Len(FinishedWith("error")) = 1)
    /\ [][provider_errors > 0 =>
             (provider_calls' = provider_calls /\ executes' = executes /\ rows' = rows)]_vars

C7_Witness ==
    /\ provider_errors = 1
    /\ provider_calls = 2
    /\ executes = 2
    /\ pc = "done"
    /\ LastOf(LastOf(AllMessages).parts) = finish_part("error")

ExhaustionMessage ==
    <<"Agent reached max turns (", ToString(MaxTurns), ") without a final answer.">>

Done == pc = "done"

\* C8: a run makes at most max_turns provider calls and goes on until it has
\* returned; a run in which every response requested a tool and no tool
\* paused makes exactly max_turns provider calls, then persists an assistant
\* message with finish(max_turns) as the last message and returns the
\* exhaustion message.
C8_MaxTurnsBound ==
    /\ provider_calls <= MaxTurns
    /\ pc # "raised"
    /\ Done \/ ENABLED Next
    /\ (Done /\ ToolMessageCount = provider_calls /\ ~ctx.should_pause) =>
          /\ provider_calls = MaxTurns
          /\ result = ExhaustionMessage
          /\ LastOf(AllMessages).role = "assistant"
          /\ LastOf(AllMessages).parts =
                <<text_part(ExhaustionMessage), finish_part("max_turns")>>
    /\ (Done /\ result = ExhaustionMessage) => provider_calls = MaxTurns

C8_Witness ==
    /\ Done
    /\ provider_calls = MaxTurns
    /\ ToolMessageCount = MaxTurns
    /\ result = ExhaustionMessage
    /\ LastOf(LastOf(AllMessages).parts) = finish_part("max_turns")

\* the number of turns in which the provider requested tool calls
ToolTurns ==
    Len(SelectSeq(AllMessages,
                  LAMBDA m : m.role = "assistant" /\ PartsOfType(m.parts, "tool_call") # <<>>))

\* the last response requests no tool, and every turn before it was a tool
\* turn
AnsweredAfterToolTurns ==
    /\ provider_errors = 0
    /\ ~ctx.should_pause
    /\ pc \in {"llm", "done"}
    /\ provider_calls >= 1
    /\ resp.function_calls = <<>>
    /\ turn = ToolTurns \/ (pc = "llm" /\ turn = ToolTurns + 1)

\* the session holds the user message, then an assistant message and a tool
\* message per tool turn, with one tool_result part per tool_call part
ToolTurnsStored(k) ==
    /\ Len(AllMessages) >= 1 + 2 * k
    /\ AllMessages[1].role = "user"
    /\ AllMessages[1].parts \in {<<text_part(m)>> : m \in UserMessages}
    /\ \A j \in 1..k :
         LET a == AllMessages[2 * j]
             t == AllMessages[2 * j + 1]
             calls == PartsOfType(a.parts, "tool_call")
         IN  /\ a.role = "assistant"
             /\ t.role = "tool"
             /\ calls # <<>>
             /\ Len(t.parts) = Len(calls)
             /\ \A i \in 1..Len(calls) :
                  /\ t.parts[i].type = "tool_result"
                  /\ t.parts[i].data.name = calls[i].data.name

\* the assistant message of the current tool turn has one tool_call part per
\* requested call
CallsStored ==
    pc \in {"tools", "check"} =>
        CallsOf(AllMessages[LastWithRole(AllMessages, "assistant")].parts)
           = resp.function_calls

\* what the run has done when it answered after k tool turns; text is the
\* returned string
AnsweredWith(k, text) ==
    /\ pc = "done"
    /\ provider_calls = k + 1
    /\ result = text
    /\ Len(AllMessages) = 2 * k + 2
    /\ ToolTurnsStored(k)
    /\ LastOf(AllMessages).role = "assistant"
    /\ LastOf(LastOf(AllMessages).parts) = finish_part("stop")

\* C9 as amended: after k tool turns, a response without tool calls that is
\* not altogether empty (it has a text part or a raw content) ends the run
\* after exactly k + 1 provider calls; the run returns the newline-joined
\* text parts, or the fixed no-reply text when the response has no text
\* part; the session holds the user message, an assistant and a tool
\* message per tool turn, and a last assistant message ending in
\* finish(stop).
C9_AnswerAfterToolTurns ==
    /\ CallsStored
    /\ (AnsweredAfterToolTurns /\ (resp.raw # NoContent \/ resp.text_parts # <<>>)) =>
          AnsweredWith(ToolTurns,
                       IF resp.text_parts # <<>> THEN Join(resp.text_parts, NL)
                       ELSE <<"(Agent produced no reply)">>)

C9_Witness ==
    /\ AnsweredAfterToolTurns
    /\ ToolTurns = 2
    /\ resp.text_parts = <<<<"a">>, <<"b">>>>
    /\ result = <<"a", "\n", "b">>
    /\ Len(AllMessages) = 6

\* C9 as stated: any response without tool calls after k tool turns ends the
\* run after k + 1 provider calls, and the run returns its newline-joined
\* text parts.
C9_AsStated ==
    AnsweredAfterToolTurns => AnsweredWith(ToolTurns, Join(resp.text_parts, NL))

(***************************************************************************)
(* History reloaded after compact(), checked under SpecCompact             *)
(***************************************************************************)
\* the position in rows of the row summary_message_id points at
SummaryPos ==
    CHOOSE k \in 1..Len(rows) : rows[k].id = session.summary_message_id[1]

\* the canonical rows from the summary row on, as list_messages returns rows
FromSummary ==
    LET cs == CanonicalRowsOf(SubSeq(rows, SummaryPos, Len(rows)))
    IN  [k \in 1..Len(cs) |->
            [id |-> cs[k].id, role |-> unmap_role(storage_kind, cs[k].role),
             parts |-> cs[k].parts]]

\* C11: after a successful compact(), the history the next run() rebuilds
\* holds no message created before the summary message: it is made of the
\* canonical rows only, the summary message first and then the messages
\* created after it, in creation order, for every storage implementation.
C11_HistoryFromSummary ==
    session.summary_message_id # NoId =>
       /\ rows[SummaryPos].msg_type = "agent_parts"
       /\ list_messages(storage_kind, rows, session.summary_message_id) = FromSummary
       /\ load_history(storage_kind, rows, session) = HistoryOf(FromSummary)
       /\ load_history(storage_kind, rows, session)[1].parts[1].text[1] = SummaryPrefix[1]

(***************************************************************************)
(* History rebuilt from the stored parts against the history of the run,   *)
(* checked under Spec                                                      *)
(***************************************************************************)
\* what is compared of one native history item: its role, its texts, its
\* tool calls (name, args) and its tool results (name, result)
ObservableItem(c) ==
    LET texts == SelectParts(c.parts, {"text"})
        fcs == SelectParts(c.parts, {"function_call"})
        frs == SelectParts(c.parts, {"function_response"})
    IN  [role |-> c.role,
         texts |-> [k \in 1..Len(texts) |-> texts[k].text],
         calls |-> [k \in 1..Len(fcs) |-> <<fcs[k].name, fcs[k].args>>],
         results |-> [k \in 1..Len(frs) |-> <<frs[k].name, frs[k].response>>]]

Observable(h) == [k \in 1..Len(h) |-> ObservableItem(h[k])]

\* C12: the provider-native history rebuilt from the stored parts of a run
\* has the same items (roles, texts, tool calls, tool results) as the
\* in-memory history the run built, whenever the run is between two turns or
\* has returned.
C12_HistoryRoundTrip ==
    pc \in {"llm", "done"} =>
        Observable(load_history(storage_kind, rows, session)) = Observable(history)

(***************************************************************************)
(* Runs per session, checked under SpecServe                               *)
(***************************************************************************)
\* C13: runs are serialized per session: a run is launched only when the
\* session's status is not processing, so at most one run() of the session
\* is in progress at any time, for the chat route and the LINE handler.
C13_RunsSerialized ==
    /\ Cardinality(Running) <= 1
    /\ \A r \in Requests :
          requests[r].at \in {"running", "finished"} =>
              requests[r].launched_on # "processing"

(***************************************************************************)
(* Token accounting of a run, checked under Spec                           *)
(***************************************************************************)
\* the provider calls of the run that returned a response
SucceededCalls == provider_calls - provider_errors

\* C14: when run() has returned, the session's cumulative prompt and
\* completion token counters have grown by the sum of the token counts of
\* the provider calls that succeeded during the run, and they change in no
\* step but the one that ends the run.
C14_TokensAccounted ==
    /\ [](pc = "done" =>
            /\ session.prompt_tokens = SucceededCalls * UsagePrompt
            /\ session.completion_tokens = SucceededCalls * UsageCompletion)
    /\ [][session' # session => pc' = "done"]_vars

(***************************************************************************)
(* The canonical row of create_message, checked under SpecCompact          *)
(***************************************************************************)
\* what a create_message call that takes the session from rows to rows' and
\* was passed created' must have written
CanonicalWriteOk ==
    LET new == RowsAfter(rows', Len(rows))
        canon == CanonicalRowsOf(new)
        stored == LastOf(list_messages(storage_kind, rows', NoId))
    IN  /\ SubSeq(rows', 1, Len(rows)) = rows
        /\ Len(canon) = 1
        /\ canon[1].parts = created'.parts
        /\ stored.role = created'.role
        /\ stored.parts = created'.parts
        /\ created'.role = "tool" =>
              LET replayed == message_to_provider(stored)
              IN  /\ Len(replayed.parts) = Len(created'.parts)
                  /\ \A k \in 1..Len(created'.parts) :
                        /\ replayed.parts[k].name = created'.parts[k].data.name
                        /\ replayed.parts[k].response = created'.parts[k].data.result

\* C15: every create_message call writes exactly one canonical row, whose
\* stored parts are the parts passed in, element for element, and leaves
\* the earlier rows as they were; the display rows derived from the parts
\* (long results cut short, error results translated) do not change them,
\* so a tool result replayed from the storage is the string that was stored.
C15_CanonicalPartsLiteral == [][created'.n # created.n => CanonicalWriteOk]_vars

DisplayRowsOf(rs) == SelectSeq(rs, LAMBDA r : r.msg_type # "agent_parts")

C15_Witness ==
    /\ storage_kind = "ChatStorage"
    /\ created.role = "tool"
    /\ created.parts[1].data.result = LongResult
    /\ \E k \in 1..Len(rows) :
          /\ rows[k].msg_type = "observation"
          /\ Len(rows[k].content) = DisplayLimit + 1
          /\ rows[k].content[DisplayLimit + 1] = "..."
    /\ \E k \in 1..Len(rows) :
          /\ rows[k].msg_type = "error_observation"
          /\ rows[k].content = <<"bad data format">>
    /\ \E k \in 1..Len(rows) :
          /\ rows[k].msg_type = "agent_parts"
          /\ rows[k].parts = <<tool_result_part("calc", ErrException("ValueError"), 7)>>

(***************************************************************************)
(* Sequence numbers of the rows of a session, checked under SpecCompact    *)
(***************************************************************************)
SequencesIncrease ==
    \A i, j \in 1..Len(rows) : i < j => rows[i].sequence < rows[j].sequence

\* C16: with one writer, every row written for a session (canonical,
\* display, or the error row the chat route writes when the agent crashes)
\* gets a sequence number greater than that of every earlier row, so the
\* order by sequence is the creation order; rows already written are
\* neither edited nor deleted.
C16_SequenceStrictlyIncreasing ==
    /\ []SequencesIncrease
    /\ [][Len(rows') >= Len(rows) /\ SubSeq(rows', 1, Len(rows)) = rows]_vars

C16_Witness ==
    /\ storage_kind = "ChatStorage"
    /\ \E k \in 2..(Len(rows) - 1) :
          /\ rows[k].msg_type = "error"
          /\ rows[k].sequence = rows[k - 1].sequence + 1
          /\ rows[k + 1].msg_type = "agent_parts"
          /\ rows[k + 1].sequence = rows[k].sequence + 1
    /\ \E k \in 1..Len(rows) : rows[k].msg_type = "thinking"

(***************************************************************************)
(* The retries of provider.generate, checked under SpecGenerate            *)
(***************************************************************************)
Failed(k) == gen.calls[k] # "ok"

\* C17: generate makes at most max_retries + 1 attempts; when it returns,
\* it returns the parsed response of the first attempt that succeeded; when
\* max_retries + 1 attempts have failed it raises the failure of the last
\* one; it never returns without a response.
C17_GenerateRetries ==
    gen.at # "idle" =>
       /\ Len(gen.calls) <= gen.max_retries + 1
       /\ gen.at = "returned" =>
             /\ gen.has_value
             /\ gen.calls # <<>>
             /\ gen.calls[Len(gen.calls)] = "ok"
             /\ \A k \in 1..(Len(gen.calls) - 1) : Failed(k)
             /\ gen.value = ParsedBy(gen.provider, gen.answer)
       /\ (gen.at = "raised" /\ gen.calls # <<>>) =>
             /\ Len(gen.calls) = gen.max_retries + 1
             /\ \A k \in 1..Len(gen.calls) : Failed(k)
             /\ gen.error = <<gen.calls[Len(gen.calls)], ToString(Len(gen.calls) - 1)>>
       /\ (gen.at = "loop" /\ gen.calls # <<>>) =>
             /\ \A k \in 1..Len(gen.calls) : Failed(k)
             /\ Len(gen.calls) <= gen.max_retries

C17_Witness ==
    /\ gen.at = "raised"
    /\ gen.provider = "OpenAI"
    /\ gen.max_retries = 2
    /\ gen.calls = <<"ApiError", "IndexError", "ApiError">>

(***************************************************************************)
(* The final answer of a run, checked under Spec                           *)
(***************************************************************************)
\* a provider call of the run returns a response without tool calls
AnswersWithoutCalls ==
    /\ pc = "llm"
    /\ provider_calls' = provider_calls + 1
    /\ provider_errors' = provider_errors
    /\ resp'.function_calls = <<>>

\* the response has neither a raw payload nor a text
NothingAtAll(r) == r.raw = NoContent /\ r.text_parts = <<>>

\* run() returns the joined texts of the response, or the placeholder, and
\* stores the thinking as thinking parts, the texts as text parts and the
\* finish part
ReturnsTextsOnly ==
    LET stored == LastOf(list_messages(storage_kind, rows', NoId))
        thinking == PartsOfType(stored.parts, "thinking")
    IN  /\ pc' = "done"
        /\ result' = IF resp'.text_parts # <<>> THEN Join(resp'.text_parts, NL)
                     ELSE <<"(Agent produced no reply)">>
        /\ \A k \in 1..Len(resp'.thinking_parts) :
              \A j \in 1..Len(result') : result'[j] # resp'.thinking_parts[k][1]
        /\ stored.role = "assistant"
        /\ [k \in 1..Len(thinking) |-> thinking[k].data.thinking] = resp'.thinking_parts
        /\ TextsOf(stored.parts) = resp'.text_parts
        /\ stored.parts[Len(stored.parts)] = finish_part("stop")

\* C18: when a provider response that is not entirely empty has no tool
\* calls, run() returns the newline-joined text parts, or the fixed
\* placeholder when there are no text parts; the thinking parts are stored
\* as thinking parts only and are no part of the returned answer, also when
\* the response is thinking alone.
C18_FinalAnswerFromTexts ==
    [][(AnswersWithoutCalls /\ ~NothingAtAll(resp')) => ReturnsTextsOnly]_vars

C18_Witness ==
    /\ pc = "done"
    /\ resp.function_calls = <<>>
    /\ resp.text_parts = <<>>
    /\ resp.thinking_parts = <<<<"h">>>>
    /\ result = <<"(Agent produced no reply)">>
    /\ storage_kind = "ChatStorage"

\* C18 as stated: whenever a provider response has no tool calls, run()
\* returns the joined texts or the placeholder.
C18_AsStated == [][AnswersWithoutCalls => ReturnsTextsOnly]_vars

(***************************************************************************)
(* The order of the storage writes of a tool-call turn, checked under Spec *)
(***************************************************************************)
StoredMessages(rs) == list_messages(storage_kind, rs, NoId)

ToolMessagesIn(rs) ==
    Len(SelectSeq(StoredMessages(rs), LAMBDA m : m.role = "tool"))

\* the last stored message is the assistant message of the turn: the
\* thinking parts, the text parts and one tool_call part per requested call
AssistantMessageOfTurnStored ==
    LET msgs == StoredMessages(rows)
        parts == LastOf(msgs).parts
        nth == Len(resp.thinking_parts)
        ntx == Len(resp.text_parts)
    IN  /\ msgs # <<>>
        /\ LastOf(msgs).role = "assistant"
        /\ Len(parts) = nth + ntx + NumCalls
        /\ \A k \in 1..nth : parts[k] = thinking_part(resp.thinking_parts[k])
        /\ \A k \in 1..ntx : parts[nth + k] = text_part(resp.text_parts[k])
        /\ \A k \in 1..NumCalls :
              parts[nth + ntx + k] =
                  tool_call_part(resp.function_calls[k].name, resp.function_calls[k].args)

\* a call of the turn is started in the step
HandlerStarts == \E i \in 1..NumCalls : wstate[i] = "queued" /\ wstate'[i] # "queued"

\* C19: in every tool-call turn the assistant message with the thinking
\* parts, the text parts and one tool_call part per requested call is in
\* Storage before the first handler of the turn is invoked, nothing is
\* written to Storage while the handlers run, and the tool message is
\* written only when all handlers of the turn have returned and their
\* results are taken up.
C19_TurnWritesInOrder ==
    [][/\ (pc = "tools" /\ HandlerStarts) =>
             (AssistantMessageOfTurnStored /\ rows' = rows)
       /\ (pc = "tools" /\ rows' # rows) =>
             /\ AllCollected
             /\ executes' = executes
             /\ wstate' = wstate
             /\ ToolMessagesIn(rows') = ToolMessagesIn(rows) + 1
             /\ LastOf(StoredMessages(rows')).parts = tool_storage_parts
             /\ SubSeq(StoredMessages(rows'), 1, Len(StoredMessages(rows)))
                    = StoredMessages(rows)
             /\ AssistantMessageOfTurnStored
       /\ (ToolMessagesIn(rows') # ToolMessagesIn(rows)) => pc = "tools"]_vars

\* a turn of one call next to a thought and two texts, after its tool message
C19_Witness ==
    /\ pc = "check"
    /\ NumCalls = 1
    /\ resp.thinking_parts # <<>>
    /\ resp.text_parts # <<>>
    /\ executes >= 1
    /\ LastOf(StoredMessages(rows)).role = "tool"
    /\ Len(StoredMessages(rows)) >= 3

(***************************************************************************)
(* The injections of a turn, checked under Spec                            *)
(***************************************************************************)
\* the budget warnings and the todo summary of the run
Injections ==
    {BudgetWarning(r) : r \in 0..MaxTurns}
    \cup {build_system_injection(todo_state_summary(ctx))}

InjectionsIn(h) == SelectSeq(h, LAMBDA item : item \in Injections)

\* the provider call of the turn returns or fails in the step
ProviderCallEnds == pc = "llm" /\ provider_calls' = provider_calls + 1

\* what the turn injects before its provider call
InjectedOnTurn(c, t) ==
    (IF MaxTurns - t = WarnTurnsRemaining THEN <<BudgetWarning(MaxTurns - t)>> ELSE <<>>)
    \o (IF todo_state_summary(c) # <<>> /\ t > 0
        THEN <<build_system_injection(todo_state_summary(c))>> ELSE <<>>)

\* C20: the budget warning and the todo summary are gone from the in-memory
\* history as soon as the provider call of their turn has returned or
\* failed, they are never written to Storage, and the history passed to a
\* provider call holds no injection of an earlier turn.
C20_InjectionsTransient ==
    [][ProviderCallEnds =>
          /\ InjectionsIn(history') = <<>>
          /\ InjectionsIn(load_history(storage_kind, rows', session')) = <<>>
          /\ InjectionsIn(prompt') = InjectedOnTurn(ctx, turn)]_vars

(***************************************************************************)
(* The empty-response path, checked under Spec                             *)
(***************************************************************************)
\* the provider call of the turn returns a response in the step
ProviderAnswers ==
    /\ pc = "llm"
    /\ provider_calls' = provider_calls + 1
    /\ provider_errors' = provider_errors

\* the response has no text, no thinking, no tool call and no raw payload
EntirelyEmpty(r) ==
    /\ r.text_parts = <<>>
    /\ r.thinking_parts = <<>>
    /\ r.function_calls = <<>>
    /\ r.raw = NoContent

\* the recovery message is appended to the history, nothing is written to
\* Storage and the run goes on with the next turn
EmptyPathTaken ==
    /\ Len(history') >= 1
    /\ LastOf(history') = build_empty_model_message
    /\ SubSeq(history', 1, Len(history)) = history
    /\ rows' = rows
    /\ session' = session
    /\ turn' = turn + 1
    /\ pc' = "llm"
    /\ result' = result

\* C21: the empty-response path is taken exactly when the response has no
\* text, no thinking, no tool calls and no raw payload; the recovery message
\* is then appended to the in-memory history, nothing is written to Storage,
\* and the run continues with the next turn, one turn of the budget used up.
C21_EmptyResponsePath ==
    [][ProviderAnswers => (EntirelyEmpty(resp') <=> EmptyPathTaken)]_vars

\* an empty response on the first turn, answered on the second
C21_Witness ==
    /\ pc = "done"
    /\ turn = 1
    /\ provider_calls = 2
    /\ provider_errors = 0
    /\ \E k \in 1..Len(history) : history[k] = build_empty_model_message
    /\ Len(StoredMessages(rows)) = 2

(***************************************************************************)
(* The think tool, checked under Spec                                      *)
(***************************************************************************)
ThinkCalls == {k \in 1..NumCalls : resp.function_calls[k].name = "think"}

StepsOfType(log, type) == SelectSeq(log, LAMBDA st : st.type = type)

\* what has become of the think calls of the turn so far
ThinkAcknowledged ==
    \A k \in ThinkCalls :
        /\ wstate[k] # "queued" =>
              /\ wout[k].result = <<"[Thought recorded]">>
              /\ wout[k].dur = 0
              /\ ~wout[k].raised
        /\ wstate[k] = "collected" =>
              /\ tool_storage_parts[k] =
                     tool_result_part("think", <<"[Thought recorded]">>, 0)
              /\ fn_responses[k].result = <<"[Thought recorded]">>

\* the steps logged for the turn: one reflection per think call, and no
\* tool_call or tool_result step for think
ThinkLoggedAsReflection ==
    LET log == ToolSteps(resp.function_calls, arrival_order)
    IN  /\ \A k \in 1..Len(log) :
              log[k].type \in {"tool_call", "tool_result"} => log[k].tool_name # "think"
        /\ AllCollected =>
              /\ Len(StepsOfType(log, "reflection")) = Cardinality(ThinkCalls)
              /\ Len(StepsOfType(log, "tool_call")) = NumCalls - Cardinality(ThinkCalls)
              /\ Len(StepsOfType(log, "tool_result")) = NumCalls - Cardinality(ThinkCalls)

\* C22: a requested call of the tool think is never passed to
\* ToolRegistry.execute, alone or in a batch: taking it up calls no execute
\* and leaves the context alone, its result is the fixed acknowledgement
\* with duration 0, and it is logged as a reflection step, never as a
\* tool_call or tool_result step.
C22_ThinkNotDispatched ==
    /\ [](pc \in {"tools", "check"} => (ThinkAcknowledged /\ ThinkLoggedAsReflection))
    /\ [][\A k \in 1..NumCalls :
             (pc = "tools" /\ wstate[k] = "queued" /\ wstate'[k] # "queued") =>
                 /\ k \in ThinkCalls => (executes' = executes /\ ctx' = ctx)
                 /\ k \notin ThinkCalls => executes' = executes + 1]_vars

\* a batch of a think call and a calc call, both taken up, one execute made
C22_Witness ==
    /\ pc = "check"
    /\ NumCalls = 2
    /\ resp.function_calls[1].name = "think"
    /\ resp.function_calls[2].name = "calc"
    /\ executes = 1
    /\ turn = 0
    /\ tool_storage_parts[1].data.result = <<"[Thought recorded]">>

(***************************************************************************)
(* The display rows of a created message, checked under SpecCompact        *)
(***************************************************************************)
\* the parts of a message that are to be shown: non-empty texts, tool calls
\* and tool results of tools other than think, thinking parts
MeaningfulParts(parts) ==
    SelectSeq(parts, LAMBDA p :
        \/ p.type = "text" /\ p.data.text # <<>>
        \/ p.type \in {"tool_call", "tool_result"} /\ p.data.name # "think"
        \/ p.type = "thinking")

\* the display row types that show a part
RowTypesFor(part) ==
    CASE part.type = "text"        -> {"text", "user_input"}
      [] part.type = "tool_call"   -> {"action"}
      [] part.type = "tool_result" -> {"observation", "error_observation"}
      [] part.type = "thinking"    -> {"thinking", "thought"}
      [] OTHER                     -> {}

\* the display rows written by the step
NewDisplayRows == DisplayRowsOf(SubSeq(rows', Len(rows) + 1, Len(rows')))

\* C23: in the database-backed storages a created message gets one display
\* row per meaningful part, in the order of the parts: a text or user_input
\* row for a non-empty text, an action row for a call of a tool other than
\* think, an observation or error_observation row for a tool result, a
\* thinking row for a thinking part, and none for a finish part or for a
\* think call and its result; user messages written through
\* add_user_message included.
C23_OneDisplayRowPerPart ==
    [][(created'.n # created.n /\ storage_kind \in DbKinds) =>
          LET shown == MeaningfulParts(created'.parts)
              disp == NewDisplayRows
          IN  /\ Len(disp) = Len(shown)
              /\ \A k \in 1..Len(shown) : disp[k].msg_type \in RowTypesFor(shown[k])]_vars

(***************************************************************************)
(* Several runs on one engine instance: run() reduced to what touches the  *)
(* loop-detection state.  The deque self._recent_calls is created by the   *)
(* constructor (line 140); run() appends to it in its tool-call turns      *)
(* (lines 396-405) and assigns it nowhere.                                 *)
(***************************************************************************)
\* the runs made on the instance
MaxRuns == 2

RunsStarted ==
    Len(SelectSeq(list_messages(storage_kind, rows, NoId), LAMBDA m : m.role = "user"))

\* run(user_message) called again on the instance after a run has returned:
\* lines 280-299, as for the first call
RunAgain(user_message) ==
    /\ pc = "done"
    /\ RunsStarted < MaxRuns
    /\ LET rows1 == add_user_message(storage_kind, rows, user_message)
       IN  /\ rows' = rows1
           /\ history' = load_history(storage_kind, rows1, session)
    /\ total_prompt_tokens' = 0
    /\ total_completion_tokens' = 0
    /\ turn' = 0
    /\ pc' = "llm"
    /\ UNCHANGED <<regVars, storage_kind, session, ctx, prompt, turnVars, loopVars,
                   result, countVars, compact_out, hostVars, created>>

\* a tool-call turn, of which the loop-detection pass is kept: the calls are
\* scanned and remembered (lines 396-405) and the loop goes on to the next
\* turn (lines 476-480)
ToolTurnScanned(calls) ==
    /\ pc = "llm"
    /\ LoopContinues(turn)
    /\ calls # <<>>
    /\ LET scan == LoopScan(calls, 1, recent_calls, FALSE)
       IN  /\ recent_calls' = scan.recent
           /\ loop_detected' = scan.detected
           /\ history' = IF scan.detected THEN Append(history, LoopWarning) ELSE history
    /\ turn' = turn + 1
    /\ UNCHANGED <<regVars, storeVars, ctx, pc, prompt, turnVars, tokenVars, result,
                   countVars, compact_out, hostVars, created>>

\* the run returns: a final answer, or the turns have run out
RunReturns ==
    /\ pc = "llm"
    /\ pc' = "done"
    /\ UNCHANGED <<regVars, storeVars, ctx, turn, history, prompt, turnVars, loopVars,
                   tokenVars, result, countVars, compact_out, hostVars, created>>

InitLoop ==
    /\ registry = EngineRegistry
    /\ ex_out = NoExec
    /\ storage_kind = "MemoryStorage"
    /\ rows = <<>>
    /\ session = NewSession
    /\ compact_out = NoCompact
    /\ InitRun

NextLoop ==
    \/ \E m \in UserMessages : Run(m)
    \/ \E m \in UserMessages : RunAgain(m)
    \/ \E cs \in SeqsUpTo(EngineCalls, MaxCalls) :
         ToolTurnScanned([k \in 1..Len(cs) |-> FunctionCall(cs[k].name, cs[k].args)])
    \/ RunReturns

SpecLoop == InitLoop /\ [][NextLoop]_vars

\* C24: the signature window is empty at the start of every run() on an
\* engine instance, so that calls of an earlier run never count in a later
\* one, and the window never holds more than loop_window signatures.
C24_LoopStateScopedToRun ==
    /\ [](Len(recent_calls) <= LoopWindow)
    /\ [][(pc \in {"idle", "done"} /\ pc' = "llm") => recent_calls' = <<>>]_vars

(***************************************************************************)
(* The todo summary in the prompt, checked under Spec                      *)
(***************************************************************************)
TodoSummaryIn(h) ==
    SelectSeq(h, LAMBDA item : item = build_system_injection(todo_state_summary(ctx)))

\* C25: on every turn at which the todo list is non-empty when the provider
\* is called, the first turn included, the history passed to the provider
\* call holds the todo-state summary exactly once.
C25_TodoSummaryOncePerTurn ==
    [][(pc = "llm" /\ provider_calls' = provider_calls + 1 /\ ctx.todo_items # <<>>) =>
          Len(TodoSummaryIn(prompt')) = 1]_vars

(***************************************************************************)
(* The finish part of a run, checked under Spec                            *)
(***************************************************************************)
FinishPartsOf(m) == PartsOfType(m.parts, "finish")

RECURSIVE FinishCount(_)
FinishCount(msgs) ==
    IF msgs = <<>> THEN 0 ELSE Len(FinishPartsOf(msgs[1])) + FinishCount(Tail(msgs))

\* the finish reason that belongs to the way the run has returned
ReasonOfOutcome ==
    IF provider_errors > 0 THEN "error"
    ELSE IF result # <<>> /\ result[1] = "__HITL_PAUSE__" THEN "hitl_pause"
    ELSE IF result = <<"Agent reached max turns (", ToString(MaxTurns),
                       ") without a final answer.">> THEN "max_turns"
    ELSE "stop"

\* C26: a run that has returned has written exactly one finish part, the
\* last part of the last message it persisted, with the reason of its
\* outcome (stop, error, hitl_pause, max_turns); until it returns, the user
\* message, the assistant messages and the tool messages it writes carry
\* no finish part.
C26_OneFinishPart ==
    LET msgs == StoredMessages(rows)
    IN  /\ pc # "done" => FinishCount(msgs) = 0
        /\ pc = "done" =>
              /\ FinishCount(msgs) = 1
              /\ LastOf(LastOf(msgs).parts) =
                     [type |-> "finish", data |-> [reason |-> ReasonOfOutcome]]
              /\ LastOf(msgs).role = "assistant"

\* a run paused after a second tool turn
C26_Witness ==
    /\ pc = "done"
    /\ ReasonOfOutcome = "hitl_pause"
    /\ turn = 1
    /\ Len(StoredMessages(rows)) = 6

(***************************************************************************)
(* The tool messages of a run and their assistant messages, checked under  *)
(* Spec                                                                    *)
(***************************************************************************)
\* the tool message msgs[k] answers the assistant message before it, call
\* by call
AnswersMessageBefore(msgs, k) ==
    /\ k > 1
    /\ msgs[k - 1].role = "assistant"
    /\ LET calls == PartsOfType(msgs[k - 1].parts, "tool_call")
           results == msgs[k].parts
       IN  /\ calls # <<>>
           /\ Len(results) = Len(calls)
           /\ \A i \in 1..Len(results) :
                 /\ results[i].type = "tool_result"
                 /\ results[i].data.name = calls[i].data.name

\* C27: every tool message written by the engine comes right after the
\* assistant message of its turn, has as many tool_result parts as that
\* message has tool_call parts, the i-th result named as the i-th call, and
\* no slot of the stored result list is unfilled, for one call and for a
\* parallel batch.
C27_ToolMessageAnswersCalls ==
    LET msgs == StoredMessages(rows)
    IN  \A k \in 1..Len(msgs) : msgs[k].role = "tool" => AnswersMessageBefore(msgs, k)

\* a batch of two different tools whose results came in against the order
\* of the calls
C27_Witness ==
    /\ pc = "check"
    /\ NumCalls = 2
    /\ arrival_order = <<2, 1>>
    /\ resp.function_calls[1].name # resp.function_calls[2].name
    /\ LastOf(StoredMessages(rows)).role = "tool"

(***************************************************************************)
(* A pause flag found set, checked under Spec                              *)
(***************************************************************************)
\* C28: the engine reads ctx.should_pause and never clears it.  With the
\* flag set, the turn that has run its tool calls ends the run with the
\* pause marker and the reason, so that a run called with the flag set
\* returns it at the end of its first tool-call turn whatever the tools do;
\* a response without tool calls is returned as the final answer with no
\* look at the flag.
C28_PauseFlagOnlyRead ==
    /\ [](pc = "llm" /\ ctx.should_pause => ToolMessagesIn(rows) = 0)
    /\ [][/\ ctx.should_pause => ctx'.should_pause
          /\ (ctx.should_pause /\ pc = "check") =>
                /\ pc' = "done"
                /\ result' = <<"__HITL_PAUSE__">> \o ctx.pause_reason
                /\ pause_reads' = pause_reads + 1
          /\ (ctx.should_pause /\ AnswersWithoutCalls /\ ~NothingAtAll(resp')) =>
                /\ pc' = "done"
                /\ result' = (IF resp'.text_parts # <<>> THEN Join(resp'.text_parts, NL)
                              ELSE <<"(Agent produced no reply)">>)
                /\ pause_reads' = pause_reads]_vars

\* a run called with the flag set has paused after a turn of a calc call
\* that asked for nothing
C28_Witness ==
    /\ pc = "done"
    /\ result = <<"__HITL_PAUSE__", "earlier review">>
    /\ NumCalls = 1
    /\ resp.function_calls[1].name = "calc"
    /\ executes = 1
    /\ turn = 0

(***************************************************************************)
(* The chat route's agent thread step by step, with the consumer of the    *)
(* session's stream: routes/chat.py _run_chat_agent and stream_session.    *)
(* requests[r].pushed lists the events the thread of message r has passed  *)
(* to push_event.                                                          *)
(***************************************************************************)
\* the events one run pushes while agent.run is under way
MaxPushes == 2

\* a done event pushed for the error
ErrorEventDone(r) == Event("done", r)

\* the message event of the error row (lines 577-588)
ErrorEvent(r) == Event("message", r)

Pushes(r, event) ==
    /\ requests' = [requests EXCEPT ![r].pushed = Append(@, event.type)]
    /\ queue' = push_event(queue, event)

\* agent.run writes a display row (ChatStorage._write_display_message) or
\* streams a token of the final answer (stream_final_answer)
AgentPushes(r, type) ==
    /\ requests[r].via = "chat"
    /\ requests[r].at = "running"
    /\ Len(requests[r].pushed) < MaxPushes
    /\ Pushes(r, Event(type, r))
    /\ UNCHANGED <<regVars, storeVars, runVars, compact_out, created, status, stale, gen>>

\* agent.run returns (line 560)
AgentReturns(r) ==
    /\ requests[r].via = "chat"
    /\ requests[r].at = "running"
    /\ requests' = [requests EXCEPT ![r].at = "returned"]
    /\ UNCHANGED <<regVars, storeVars, runVars, compact_out, created, status, stale, gen,
                   queue>>

\* _create_chat_agent or agent.run raises (lines 559-561)
AgentRaises(r) ==
    /\ requests[r].via = "chat"
    /\ requests[r].at = "running"
    /\ requests' = [requests EXCEPT ![r].at = "raised"]
    /\ UNCHANGED <<regVars, storeVars, runVars, compact_out, created, status, stale, gen,
                   queue>>

\* the except clause: the error row is written and its message event pushed
\* (lines 561-591)
ErrorReported(r) ==
    /\ requests[r].at = "raised"
    /\ rows' = Append(rows, ErrorRow(rows))
    /\ requests' = [requests EXCEPT ![r].at = "reported",
                                    ![r].pushed = Append(@, ErrorEvent(r).type)]
    /\ queue' = push_event(queue, ErrorEvent(r))
    /\ UNCHANGED <<regVars, storage_kind, session, runVars, compact_out, created, status,
                   stale, gen>>

\* the finally clause marks the session active (lines 592-603)
StatusReset(r) ==
    /\ requests[r].at \in {"returned", "reported"}
    /\ status' = "active"
    /\ stale' = FALSE
    /\ requests' = [requests EXCEPT ![r].at = "reset"]
    /\ UNCHANGED <<regVars, storeVars, runVars, compact_out, created, gen, queue>>

\* the finally clause pushes the done event (lines 605-609)
DonePushed(r) ==
    /\ requests[r].at = "reset"
    /\ requests' = [requests EXCEPT ![r].at = "finished",
                                    ![r].pushed = Append(@, "done")]
    /\ queue' = push_event(queue, Event("done", r))
    /\ UNCHANGED <<regVars, storeVars, runVars, compact_out, created, status, stale, gen>>

\* the stream endpoint takes an event off the queue and removes the queue
\* on a done event (lines 511-533)
StreamTakes ==
    /\ queue.exists
    /\ queue.events # <<>>
    /\ queue' = IF Head(queue.events).type = "done" THEN NoQueue
                ELSE [queue EXCEPT !.events = Tail(@)]
    /\ UNCHANGED <<regVars, storeVars, runVars, compact_out, created, status, stale,
                   requests, gen>>

\* the stream endpoint has polled max_polls times: remove_queue (lines 535-537)
StreamTimesOut ==
    /\ queue.exists
    /\ queue' = NoQueue
    /\ UNCHANGED <<regVars, storeVars, runVars, compact_out, created, status, stale,
                   requests, gen>>

\* the messages sent through the chat route
ChatRuns == 1..(MaxRequests - 1)

NextChat ==
    \/ \E r \in ChatRuns : SendMessage(r)
    \/ \E r \in ChatRuns, type \in {"message", "token"} : AgentPushes(r, type)
    \/ \E r \in ChatRuns : AgentReturns(r)
    \/ \E r \in ChatRuns : AgentRaises(r)
    \/ \E r \in ChatRuns : ErrorReported(r)
    \/ \E r \in ChatRuns : StatusReset(r)
    \/ \E r \in ChatRuns : DonePushed(r)
    \/ StreamTakes
    \/ StreamTimesOut

SpecChat == InitServe /\ [][NextChat]_vars

\* the agent thread is scheduled and agent.run returns or raises
SpecChatFair ==
    /\ SpecChat
    /\ \A r \in ChatRuns :
         /\ WF_vars(AgentReturns(r) \/ AgentRaises(r))
         /\ WF_vars(ErrorReported(r))
         /\ WF_vars(StatusReset(r))
         /\ WF_vars(DonePushed(r))

DoneEventsOf(r) == SelectSeq(requests[r].pushed, LAMBDA type : type = "done")

\* the thread of message r has marked the session active
HasReset(r) == requests[r].at \in {"reset", "finished"}

\* the events of run r on the queue, in the order they were put
QueuedBy(q, r) == SelectSeq(q.events, LAMBDA e : e.by = r)

\* C29: for every run launched by the chat route, whether agent.run returns
\* or raises, the thread sets the session status to active and then pushes
\* one done event, its only one and the last event it pushes; on the queue
\* the done event of a run stands behind every other event of that run.
C29_StatusResetThenDone ==
    /\ \A r \in ChatRuns :
         (requests[r].at = "running") ~> (requests[r].at = "finished")
    /\ [](\A r \in ChatRuns :
            /\ Len(DoneEventsOf(r)) = (IF requests[r].at = "finished" THEN 1 ELSE 0)
            /\ requests[r].at = "finished" => LastOf(requests[r].pushed) = "done"
            /\ \A k \in 1..Len(QueuedBy(queue, r)) :
                  QueuedBy(queue, r)[k].type = "done" => k = Len(QueuedBy(queue, r)))
    /\ [][\A r \in ChatRuns :
            /\ (~HasReset(r) /\ HasReset(r)') => status' = "active"
            /\ requests'[r].pushed # requests[r].pushed =>
                  /\ LastOf(requests'[r].pushed) = "done" <=> HasReset(r)
                  /\ queue.exists =>
                        queue'.events =
                            Append(queue.events, Event(LastOf(requests'[r].pushed), r))]_vars

\* a run that raised has finished: its error event and its done event are
\* on the queue, the status is active
C29_Witness ==
    /\ requests[1].at = "finished"
    /\ requests[1].pushed = <<"message", "message", "message", "done">>
    /\ QueuedBy(queue, 1) =
           <<Event("message", 1), Event("message", 1), Event("message", 1), Event("done", 1)>>
    /\ status = "active"
    /\ \E k \in 1..Len(rows) : rows[k].msg_type = "error"

(***************************************************************************)
(* The rule ask without an approval callback, checked under SpecExec       *)
(***************************************************************************)
\* what the first rule that matches the name says; allow when none matches
\* or the rule has no permission key
DecidedPermission(name) ==
    IF MatchingRules(name) = {} THEN "allow"
    ELSE IF FirstMatch(name) = "<no key>" THEN "allow"
    ELSE FirstMatch(name)

\* C30: when the rule deciding a tool says ask and no approval callback is
\* installed, execute runs the handler exactly as for allow: nobody is
\* asked, no permission error is returned, and the result is that of the
\* handler's invocations; the deciding rule is the first rule in list order
\* whose pattern matches the tool name.
C30_AskWithoutCallbackAllows ==
    (ex_out.called /\ Registered(ex_out.name)) =>
        LET ran == Attempts(ex_out.name, ex_out.args, ex_out.beh, 0, <<>>)
            denied == <<"Error: ", "tool '", ex_out.name, "' denied by policy">>
            refused == <<"Error: ", "user denied tool '", ex_out.name, "'">>
        IN  /\ (DecidedPermission(ex_out.name) = "ask" /\ ~registry.callback) =>
                  /\ ~ex_out.out.asked
                  /\ ex_out.out.invoked >= 1
                  /\ ex_out.out.invoked = ran.invoked
                  /\ ex_out.out.result = ran.result
                  /\ ex_out.out.pauses = ran.pauses
                  /\ ex_out.out.result \notin {denied, refused}
            /\ ex_out.out.result = denied <=> DecidedPermission(ex_out.name) = "deny"
            /\ ex_out.out.asked <=>
                  (DecidedPermission(ex_out.name) = "ask" /\ registry.callback)

\* review is decided by the first rule, ask, ahead of a rule that denies
\* every tool; no callback is installed and the handler has run
C30_Witness ==
    /\ ex_out.called
    /\ ex_out.name = "review"
    /\ Registered("review")
    /\ registry.rules = <<Rule("re*", "ask"), Rule("*", "deny")>>
    /\ ~registry.callback
    /\ ex_out.out.invoked >= 1
    /\ ex_out.out.result = <<"value of ", "review", ex_out.args>>
====
